---- MODULE Spec2Model ----
(***************************************************************************)
(* A model of bfiles: the token chunker (chunking.py), the bundler         *)
(* (bundler.py, reader.py, metadata.py, metadata_writer.py, utils.py), the *)
(* bundle parser (parser.py), the extractor (extractor.py, unbundler.py)   *)
(* and the exclusion manager (exclusions.py).                              *)
(*                                                                         *)
(* Text is a sequence of one-byte characters.  A bundle is a sequence of   *)
(* lines, each implicitly terminated by a newline (the bundler only ever   *)
(* writes whole lines).                                                    *)
(***************************************************************************)
EXTENDS Integers, Sequences, FiniteSets, TLC

VARIABLES
    \* FileChunker._split_tokens
    tokens, chunk_size, chunk_overlap, current_pos, chunks, chunk_pc,
    \* the bundle file on disk and how the input bundle was put together
    bundle_lines, bundle_blocks,
    \* Unbundler / FileExtractor
    force_overwrite, list_only, dry_run, out_fs, out_dirs,
    file_entries, extract_pc, extract_result, group_idx,
    file_extraction_counter, reassembled_parts, reassemble_i,
    \* BfilesConfig and the candidate files
    files, max_files, allow_unsafe, sanitize_unsafe, show_excluded,
    \* Bundler.bundle / _process_files
    file_idx, buffer, stats, file_hash_map, all_metadata, bundle_pc, attempt,
    \* ExclusionManager: [cache, items, counts]
    exclusion_manager,
    \* FileCollector.collect
    follow_symlinks, walk_pending, candidate_paths, collect_pc

chunkVars == <<tokens, chunk_size, chunk_overlap, current_pos, chunks, chunk_pc>>

extractVars == <<bundle_lines, bundle_blocks, force_overwrite, list_only, dry_run,
                 out_fs, out_dirs, file_entries, extract_pc, extract_result, group_idx,
                 file_extraction_counter, reassembled_parts, reassemble_i>>

bundleVars == <<files, max_files, allow_unsafe, sanitize_unsafe, show_excluded,
                file_idx, buffer, stats, file_hash_map, all_metadata, bundle_pc, attempt,
                exclusion_manager>>

collectVars == <<follow_symlinks, walk_pending, candidate_paths, collect_pc>>

vars == <<chunkVars, extractVars, bundleVars, collectVars>>

\* The collector's part of the state while no scan is running.
CollectIdle ==
    /\ follow_symlinks = FALSE
    /\ walk_pending = <<>>
    /\ candidate_paths = <<>>
    /\ collect_pc = "idle"

(***************************************************************************)
(* Generic helpers                                                         *)
(***************************************************************************)
Min(a, b) == IF a <= b THEN a ELSE b

Range(s) == {s[i] : i \in DOMAIN s}

\* Python slice s[a:b] with 0-based a (inclusive), b (exclusive), clamped.
Slice(s, a, b) ==
    LET lo == IF a < 0 THEN 0 ELSE a
        hi == Min(b, Len(s))
    IN  IF hi <= lo THEN <<>> ELSE SubSeq(s, lo + 1, hi)

RECURSIVE Flatten(_)
Flatten(ss) == IF ss = <<>> THEN <<>> ELSE Head(ss) \o Flatten(Tail(ss))

\* Absent values: Python None for an int, and for a dict lookup.
NoInt == -1
NoValue == "None"

\* The empty mapping (dict()).
EmptyMap == [x \in {} |-> x]

MapGet(d, key, default) == IF key \in DOMAIN d THEN d[key] ELSE default

\* The unbundler's part of the state while no extraction is running.
ExtractIdle ==
    /\ bundle_lines = <<>>
    /\ bundle_blocks = <<>>
    /\ force_overwrite = FALSE
    /\ list_only = FALSE
    /\ dry_run = FALSE
    /\ out_fs = EmptyMap
    /\ out_dirs = {}
    /\ file_entries = <<>>
    /\ extract_pc = "idle"
    /\ extract_result = FALSE
    /\ group_idx = 0
    /\ file_extraction_counter = 0
    /\ reassembled_parts = <<>>
    /\ reassemble_i = 0

\* The bundler's part of the state while no bundle is being made.
BundlerIdle ==
    /\ files = <<>>
    /\ max_files = NoInt
    /\ allow_unsafe = FALSE
    /\ sanitize_unsafe = FALSE
    /\ show_excluded = FALSE
    /\ file_idx = 0
    /\ buffer = <<>>
    /\ stats = EmptyMap
    /\ file_hash_map = EmptyMap
    /\ all_metadata = <<>>
    /\ bundle_pc = "idle"
    /\ attempt = 0

BundleIdle == BundlerIdle /\ exclusion_manager = EmptyMap

(***************************************************************************)
(* Bounds of the chunker model                                             *)
(***************************************************************************)
MaxTokens == 25
MaxChunkSize == 10
MaxOverlap == 3
MaxShortLen == 3

\* Token sequences: every token distinct (so a window's tokens determine its
\* position), and every short sequence over two token ids.
RECURSIVE SeqsUpTo(_, _)
SeqsUpTo(S, n) ==
    IF n = 0 THEN {<<>>}
    ELSE LET shorter == SeqsUpTo(S, n - 1)
         IN  shorter \cup {Append(q, x) : q \in {r \in shorter : Len(r) = n - 1}, x \in S}

TokenSeqs ==
    {[i \in 1..n |-> i] : n \in 0..MaxTokens} \cup SeqsUpTo({1, 2}, MaxShortLen)

(***************************************************************************)
(* FileChunker._split_tokens (chunking.py 117-142)                         *)
(***************************************************************************)
\* One iteration of the while loop: append the window, advance, step back
\* by the overlap when tokens remain.
SplitAdvanceNoOverlap(pos, toks, size, overlap) == pos + size

SplitAdvance(pos, toks, size, overlap) ==
    LET next == pos + size
    IN  IF next < Len(toks) /\ overlap > 0 THEN next - overlap ELSE next

SplitWindowFixed(pos, toks, size) == Slice(toks, pos, pos + size + 1)

SplitWindow(pos, toks, size) ==
    Slice(toks, pos, Min(pos + size, Len(toks)))

\* The whole loop, for callers that need its result in one step.  `fuel`
\* bounds the iterations; done is FALSE when the loop does not end within
\* it (overlap >= size never advances).
RECURSIVE SplitLoop(_, _, _, _, _, _)
SplitLoop(pos, acc, toks, size, overlap, fuel) ==
    IF ~(pos < Len(toks)) THEN [done |-> TRUE, chunks |-> acc]
    ELSE IF fuel = 0 THEN [done |-> FALSE, chunks |-> acc]
    ELSE SplitLoop(SplitAdvance(pos, toks, size, overlap),
                   Append(acc, SplitWindow(pos, toks, size)),
                   toks, size, overlap, fuel - 1)

SplitTokens(toks, size, overlap) ==
    SplitLoop(0, <<>>, toks, size, overlap, Len(toks))

\* BfilesConfig.validate: the only condition on the fields modelled here is
\* that allow_unsafe and sanitize_unsafe are not both set; chunk_size and
\* chunk_overlap are not examined.
Validate(allow, sanitize, size, overlap) == ~(allow /\ sanitize)

InitChunk ==
    /\ tokens \in TokenSeqs
    /\ chunk_size \in 1..MaxChunkSize
    /\ chunk_overlap \in 0..MaxOverlap
    /\ Validate(FALSE, FALSE, chunk_size, chunk_overlap)
    /\ current_pos = 0
    /\ chunks = <<>>
    /\ chunk_pc = "loop"
    /\ ExtractIdle
    /\ BundleIdle
    /\ CollectIdle

\* while current_pos < len(tokens): ...   (a configuration with
\* overlap >= size never leaves the loop; the model stops it after
\* len(tokens) windows)
SplitStep ==
    /\ chunk_pc = "loop"
    /\ current_pos < Len(tokens)
    /\ Len(chunks) < Len(tokens)
    /\ chunks' = Append(chunks, SplitWindow(current_pos, tokens, chunk_size))
    /\ current_pos' = SplitAdvance(current_pos, tokens, chunk_size, chunk_overlap)
    /\ UNCHANGED <<tokens, chunk_size, chunk_overlap, chunk_pc>>
    /\ UNCHANGED extractVars
    /\ UNCHANGED bundleVars
    /\ UNCHANGED collectVars

\* return chunks
SplitReturn ==
    /\ chunk_pc = "loop"
    /\ ~(current_pos < Len(tokens))
    /\ chunk_pc' = "done"
    /\ UNCHANGED <<tokens, chunk_size, chunk_overlap, current_pos, chunks>>
    /\ UNCHANGED extractVars
    /\ UNCHANGED bundleVars
    /\ UNCHANGED collectVars

NextChunk == SplitStep \/ SplitReturn

SpecChunk == InitChunk /\ [][NextChunk]_vars

(***************************************************************************)
(* Properties of the chunker, checked under SpecChunk                      *)
(***************************************************************************)
ValidChunkConfig == chunk_size >= 1 /\ 0 <= chunk_overlap /\ chunk_overlap < chunk_size

\* The windows with the first `overlap` tokens of every window but the first
\* removed, concatenated.
DropLeadingOverlap(cs, overlap) ==
    Flatten([k \in 1..Len(cs) |->
                IF k = 1 THEN cs[k] ELSE Slice(cs[k], overlap, Len(cs[k]))])

\* C4 (chunk coverage): for chunk_size >= 1 and 0 <= overlap < chunk_size,
\* once _split_tokens has returned, concatenating its windows after removing
\* the first `overlap` tokens of every window but the first gives back the
\* token sequence.
C4_ChunkCoverage ==
    (chunk_pc = "done" /\ ValidChunkConfig)
        => DropLeadingOverlap(chunks, chunk_overlap) = tokens

C4_Witness ==
    /\ chunk_pc = "done"
    /\ ValidChunkConfig
    /\ chunk_overlap > 0
    /\ Len(chunks) >= 3
    /\ Len(chunks[Len(chunks)]) < chunk_size

\* Start of window k (0-based token position) as the claim states it.
WindowStart(k) == (k - 1) * (chunk_size - chunk_overlap)

DistinctTokens == \A i \in 1..Len(tokens) : tokens[i] = i

\* C10 (window positions): for 0 <= overlap < chunk_size and n > 0 tokens the
\* windows are [p_i, min(p_i + size, n)) with p_1 = 0 and
\* p_(i+1) = p_i + size - overlap, the last window being the first one that
\* reaches token n; n = 25, size = 10, overlap = 2 gives [0,10), [8,18),
\* [16,25).  Stated on token sequences whose tokens are their own positions.
C10_WindowPositions ==
    (chunk_pc = "done" /\ ValidChunkConfig /\ Len(tokens) > 0 /\ DistinctTokens)
        => /\ Len(chunks) >= 1
           /\ \A k \in 1..Len(chunks) :
                /\ chunks[k] = [j \in 1..(Min(WindowStart(k) + chunk_size, Len(tokens))
                                            - WindowStart(k)) |-> WindowStart(k) + j]
                /\ (WindowStart(k) + chunk_size >= Len(tokens)) <=> (k = Len(chunks))
           /\ (Len(tokens) = 25 /\ chunk_size = 10 /\ chunk_overlap = 2)
                => chunks = << [j \in 1..10 |-> j],
                               [j \in 1..10 |-> 8 + j],
                               [j \in 1..9 |-> 16 + j] >>

C10_Witness ==
    /\ chunk_pc = "done"
    /\ Len(tokens) = 25 /\ DistinctTokens
    /\ chunk_size = 10 /\ chunk_overlap = 2
    /\ Len(chunks) = 3

\* C11 (overlap rejected): the windowing loop never runs under a
\* configuration with chunk_overlap >= chunk_size, and it never has produced
\* as many windows as there are tokens while tokens remain (every window of
\* an accepted configuration advances, so the loop ends).
C11_OverlapRejected ==
    chunk_pc = "loop"
        => /\ chunk_overlap < chunk_size
           /\ ~(Len(chunks) >= Len(tokens) /\ current_pos < Len(tokens))

(***************************************************************************)
(* Text and bundle lines                                                   *)
(***************************************************************************)
NL == "\n"
ESC == "ESC"
NUL == "NUL"

\* One line of a bundle file.  k is what the line's text is:
\*   "text"  any other text, s is its characters (no newline); the blank
\*           line is the text line with no characters
\*   "file"  "### FILE num: path [(Chunk n/t)] | meta ###"
\*   "bof" / "eof"   the content markers
\*   "attention", "instructions", "start", "generated", "config",
\*   "comment", "dashes"   the header lines
\*   "summary", "counts", "summary_end", "end"   the footer lines
TextLine(s) == [k |-> "text", s |-> s]
BlankLine == TextLine(<<>>)
BofLine == [k |-> "bof"]
EofLine == [k |-> "eof"]

IsBlank(line) == line.k = "text" /\ line.s = <<>>

\* The characters of a line as str.join sees them (without the newline).  A
\* marker or header line swallowed into a content block stands for its own
\* text as one symbol.
LineText(line) == IF line.k = "text" THEN line.s ELSE <<line.k>>

\* "".join(content_lines): every line with its newline.
RECURSIVE JoinLines(_)
JoinLines(ls) ==
    IF ls = <<>> THEN <<>> ELSE LineText(Head(ls)) \o <<NL>> \o JoinLines(Tail(ls))

\* The text of the BOF and of the EOF marker, each as one symbol of a content.
BOF_TEXT == "bof"
EOF_TEXT == "eof"

\* A line of the bundle file with the given characters: a line whose text is
\* that of a marker is that marker, wherever it comes from.
LineOf(cur) ==
    IF cur = <<BOF_TEXT>> THEN BofLine
    ELSE IF cur = <<EOF_TEXT>> THEN EofLine
    ELSE TextLine(cur)

\* The lines of a text that ends with a newline (or is empty).
RECURSIVE SplitLines(_, _)
SplitLines(text, cur) ==
    IF text = <<>> THEN <<>>
    ELSE IF Head(text) = NL THEN <<LineOf(cur)>> \o SplitLines(Tail(text), <<>>)
    ELSE SplitLines(Tail(text), Append(cur, Head(text)))

(***************************************************************************)
(* BundleParser (parser.py)                                                *)
(***************************************************************************)
\* A metadata string is its items and the separator written between them.
\* _parse_metadata_kv_str splits on ";" only: a string joined with " | "
\* is one pair, whose key is the first item's key and whose value is the
\* rest of the string.
RestOfString == "value | more items"

RECURSIVE ItemsToDict(_, _)
ItemsToDict(items, d) ==
    IF items = <<>> THEN d
    ELSE LET it == Head(items)
             keys == DOMAIN d \cup {it.key}
         IN  ItemsToDict(Tail(items),
                 [x \in keys |-> IF x = it.key THEN it.value ELSE d[x]])

ParseMetadataKvStr(meta) ==
    IF meta.items = <<>> THEN EmptyMap
    ELSE IF meta.sep = ";" \/ Len(meta.items) = 1 THEN ItemsToDict(meta.items, EmptyMap)
    ELSE ItemsToDict(<<[key |-> meta.items[1].key, value |-> RestOfString]>>, EmptyMap)

\* _parse_header: index of the first line after the header, 0 on failure.
RECURSIVE HeaderBody(_, _)
HeaderBody(lines, i) ==
    IF i > Len(lines) THEN 0
    ELSE IF lines[i].k = "dashes"
         THEN IF i + 1 <= Len(lines) /\ IsBlank(lines[i + 1]) THEN i + 2 ELSE i + 1
    ELSE HeaderBody(lines, i + 1)

ParseHeader(lines) ==
    LET i1 == IF 1 <= Len(lines) /\ lines[1].k = "attention" THEN 2 ELSE 1
        i2 == IF i1 <= Len(lines) /\ lines[i1].k = "instructions" THEN i1 + 1 ELSE i1
        i3 == IF i2 <= Len(lines) /\ IsBlank(lines[i2]) THEN i2 + 1 ELSE i2
    IN  IF i3 > Len(lines) THEN 0
        ELSE IF lines[i3].k # "start" THEN 0
        ELSE HeaderBody(lines, i3 + 1)

\* Index of the first EOF marker at or after i, 0 if none (while ... else).
RECURSIVE FindEOF(_, _)
FindEOF(lines, i) ==
    IF i > Len(lines) THEN 0
    ELSE IF lines[i].k = "eof" THEN i
    ELSE FindEOF(lines, i + 1)

ParsedFileEntry(header, content) ==
    [relative_path |-> header.path,
     metadata_dict |-> ParseMetadataKvStr(header.meta),
     content |-> content,
     is_chunk |-> header.chunk_num # NoInt,
     chunk_num |-> header.chunk_num,
     total_chunks |-> header.total_chunks,
     file_num_in_bundle |-> header.num]

\* The entry loop of parse(), from line i with the entries read so far.
RECURSIVE ParseEntries(_, _, _)
ParseEntries(lines, i, acc) ==
    IF i > Len(lines) THEN [ok |-> TRUE, file_entries |-> acc]
    ELSE IF IsBlank(lines[i]) THEN ParseEntries(lines, i + 1, acc)
    ELSE IF lines[i].k \in {"summary", "end"} THEN [ok |-> TRUE, file_entries |-> acc]
    ELSE IF lines[i].k # "file" THEN [ok |-> FALSE, file_entries |-> acc]
    ELSE IF i + 1 > Len(lines) \/ lines[i + 1].k # "bof" THEN [ok |-> FALSE, file_entries |-> acc]
    ELSE LET e == FindEOF(lines, i + 2)
         IN  IF e = 0 THEN [ok |-> FALSE, file_entries |-> acc]
             ELSE LET after == IF e + 1 <= Len(lines) /\ IsBlank(lines[e + 1])
                               THEN e + 2 ELSE e + 1
                      content == JoinLines(SubSeq(lines, i + 2, e - 1))
                  IN  ParseEntries(lines, after,
                                   Append(acc, ParsedFileEntry(lines[i], content)))

\* parse(): False for an empty file or a failed header.
ParseKeepsPartial(lines) ==
    IF lines = <<>> THEN [ok |-> FALSE, file_entries |-> <<>>]
    ELSE LET h == ParseHeader(lines)
         IN  IF h = 0 THEN [ok |-> FALSE, file_entries |-> <<>>]
             ELSE [ok |-> TRUE, file_entries |-> ParseEntries(lines, h, <<>>).file_entries]

Parse(lines) ==
    IF lines = <<>> THEN [ok |-> FALSE, file_entries |-> <<>>]
    ELSE LET h == ParseHeader(lines)
         IN  IF h = 0 THEN [ok |-> FALSE, file_entries |-> <<>>]
             ELSE ParseEntries(lines, h, <<>>)

(***************************************************************************)
(* Paths.  A path is its sequence of segments; an absolute path starts     *)
(* with the segment "/".                                                   *)
(***************************************************************************)
IsAbsolute(path) == path # <<>> /\ path[1] = "/"

\* Path.resolve() on segments: "." dropped, ".." removes the segment before
\* it (and stays at the filesystem root).
RECURSIVE Normalize(_, _)
Normalize(segs, acc) ==
    IF segs = <<>> THEN acc
    ELSE IF Head(segs) = "." THEN Normalize(Tail(segs), acc)
    ELSE IF Head(segs) = ".."
         THEN Normalize(Tail(segs), IF acc = <<>> THEN acc ELSE SubSeq(acc, 1, Len(acc) - 1))
    ELSE Normalize(Tail(segs), Append(acc, Head(segs)))

\* (root / rel).resolve(): joining an absolute path replaces the root.
ResolvePath(root, rel) ==
    IF IsAbsolute(rel) THEN Normalize(Tail(rel), <<>>) ELSE Normalize(root \o rel, <<>>)

IsUnder(path, root) ==
    Len(path) >= Len(root) /\ SubSeq(path, 1, Len(root)) = root

\* provide.foundation.archive.security.is_safe_path: a path is unsafe when it
\* is absolute or when, normalized, it leaves the root.
IsSafePath(root, rel) ==
    ~IsAbsolute(rel) /\ IsUnder(ResolvePath(root, rel), root)

OUTPUT_ROOT == <<"out">>

(***************************************************************************)
(* FileExtractor (extractor.py)                                            *)
(***************************************************************************)
\* The absolute target, or <<>> for None.
ValidateAlwaysResolve(root, rel) == ResolvePath(root, rel)

ValidateAndResolvePath(root, rel) ==
    IF ~IsSafePath(root, rel) THEN <<>> ELSE ResolvePath(root, rel)

\* str.isdigit() and int() on the metadata values the model writes.
DigitValue == [d \in {"0", "1", "2", "3", "4", "5", "6", "7", "8", "9"} |->
                 CASE d = "0" -> 0 [] d = "1" -> 1 [] d = "2" -> 2 [] d = "3" -> 3
                   [] d = "4" -> 4 [] d = "5" -> 5 [] d = "6" -> 6 [] d = "7" -> 7
                   [] d = "8" -> 8 [] d = "9" -> 9]

GetOverlapBytes(entry) ==
    LET overlap_str == MapGet(entry.metadata_dict, "overlap_prev", NoValue)
    IN  IF overlap_str \in DOMAIN DigitValue THEN DigitValue[overlap_str] ELSE 0

\* _handle_chunk_overlap: ok is FALSE for None.
HandleChunkOverlap(assembled, chunk, overlap_bytes) ==
    IF Len(assembled) < overlap_bytes \/ Len(chunk) < overlap_bytes
    THEN [ok |-> FALSE, rest |-> <<>>]
    ELSE LET logical == IF assembled # <<>> /\ assembled[Len(assembled)] = NL
                        THEN SubSeq(assembled, 1, Len(assembled) - 1)
                        ELSE assembled
         IN  IF Len(logical) < overlap_bytes THEN [ok |-> FALSE, rest |-> <<>>]
             ELSE IF Slice(logical, Len(logical) - overlap_bytes, Len(logical))
                       = Slice(chunk, 0, overlap_bytes)
                  THEN [ok |-> TRUE, rest |-> Slice(chunk, overlap_bytes, Len(chunk))]
                  ELSE [ok |-> FALSE, rest |-> <<>>]

\* One iteration of the loop of reassemble_chunks: the part appended for
\* entry i, given the parts appended so far.
ReassemblePartDropsMismatch(entries, i, parts) ==
    IF i = 1 THEN entries[i].content
    ELSE LET overlap_bytes_prev == GetOverlapBytes(entries[i])
             non_overlapping == HandleChunkOverlap(Flatten(parts), entries[i].content,
                                                   overlap_bytes_prev)
         IN  IF overlap_bytes_prev > 0
             THEN IF non_overlapping.ok THEN non_overlapping.rest ELSE <<>>
             ELSE entries[i].content

ReassemblePart(entries, i, parts) ==
    IF i = 1 THEN entries[i].content
    ELSE LET overlap_bytes_prev == GetOverlapBytes(entries[i])
             non_overlapping == HandleChunkOverlap(Flatten(parts), entries[i].content,
                                                   overlap_bytes_prev)
         IN  IF overlap_bytes_prev > 0 /\ non_overlapping.ok /\ non_overlapping.rest # <<>>
             THEN non_overlapping.rest
             ELSE entries[i].content

RECURSIVE ReassembleLoop(_, _, _)
ReassembleLoop(entries, i, parts) ==
    IF i > Len(entries) THEN parts
    ELSE ReassembleLoop(entries, i + 1, Append(parts, ReassemblePart(entries, i, parts)))

\* reassemble_chunks: raised is TRUE for ChunkReassemblyError.
ReassembleChunks(entries) ==
    IF ~(\A i \in 1..Len(entries) : entries[i].is_chunk)
    THEN [raised |-> TRUE, parts |-> <<>>]
    ELSE IF entries[1].total_chunks # 0 /\ Len(entries) # entries[1].total_chunks
    THEN [raised |-> TRUE, parts |-> <<>>]
    ELSE [raised |-> FALSE, parts |-> ReassembleLoop(entries, 1, <<>>)]

\* determine_content: chunk entries are reassembled, otherwise the first
\* entry's content is taken.
DetermineContent(entries) ==
    IF entries[1].is_chunk
    THEN LET r == ReassembleChunks(entries)
         IN  [raised |-> r.raised, content |-> Flatten(r.parts), parts |-> r.parts]
    ELSE [raised |-> FALSE, content |-> entries[1].content, parts |-> <<>>]

IsEmptyFile(entry) ==
    \/ MapGet(entry.metadata_dict, "op", NoValue) = "0"
    \/ MapGet(entry.metadata_dict, "size", "") \in {"0B", "0b"}

\* The filesystem under test maps the absolute path of every file to its
\* content; a directory exists when a file lies below it.
IsDirectory(fs, path) ==
    \E f \in DOMAIN fs : Len(f) > Len(path) /\ SubSeq(f, 1, Len(path)) = path

PathExists(fs, path) == path \in DOMAIN fs \/ IsDirectory(fs, path)

ParentIsFile(fs, path) ==
    \E n \in 1..(Len(path) - 1) : SubSeq(path, 1, n) \in DOMAIN fs

WriteFile(fs, path, content) ==
    [f \in DOMAIN fs \cup {path} |-> IF f = path THEN content ELSE fs[f]]

\* extract_file without the test for an existing target.
ExtractFileNoExistsCheck(fs, target_path, content0, is_empty, force, dry) ==
    LET content == IF is_empty /\ content0 = <<NL>> THEN <<>> ELSE content0
    IN  IF dry THEN [ok |-> TRUE, fs |-> fs]
        ELSE IF ParentIsFile(fs, target_path) \/ IsDirectory(fs, target_path)
             THEN [ok |-> FALSE, fs |-> fs]
        ELSE [ok |-> TRUE, fs |-> WriteFile(fs, target_path, content)]

\* extract_file: the filesystem afterwards and the value returned.
ExtractFile(fs, target_path, content0, is_empty, force, dry) ==
    LET content == IF is_empty /\ content0 = <<NL>> THEN <<>> ELSE content0
    IN  IF dry THEN [ok |-> TRUE, fs |-> fs]
        ELSE IF PathExists(fs, target_path) /\ ~force THEN [ok |-> FALSE, fs |-> fs]
        ELSE IF ParentIsFile(fs, target_path) \/ IsDirectory(fs, target_path)
             THEN [ok |-> FALSE, fs |-> fs]
        ELSE [ok |-> TRUE, fs |-> WriteFile(fs, target_path, content)]

(***************************************************************************)
(* Unbundler (unbundler.py)                                                *)
(***************************************************************************)
\* _group_file_entries: the paths in the order of their first entry.
RECURSIVE GroupPaths(_, _)
GroupPaths(entries, seen) ==
    IF entries = <<>> THEN seen
    ELSE GroupPaths(Tail(entries),
                    IF Head(entries).relative_path \in Range(seen) THEN seen
                    ELSE Append(seen, Head(entries).relative_path))

\* entries.sort(key=(is_chunk, chunk_num or -1)): stable.
SortKeyLess(e1, e2) ==
    \/ ~e1.is_chunk /\ e2.is_chunk
    \/ e1.is_chunk = e2.is_chunk /\ e1.chunk_num < e2.chunk_num

RECURSIVE InsertSorted(_, _)
InsertSorted(sorted, e) ==
    IF sorted = <<>> THEN <<e>>
    ELSE IF SortKeyLess(e, Head(sorted)) THEN <<e>> \o sorted
    ELSE <<Head(sorted)>> \o InsertSorted(Tail(sorted), e)

RECURSIVE SortEntries(_, _)
SortEntries(entries, sorted) ==
    IF entries = <<>> THEN sorted
    ELSE SortEntries(Tail(entries), InsertSorted(sorted, Head(entries)))

EntriesOf(entries, rel) == SelectSeq(entries, LAMBDA e : e.relative_path = rel)

GroupOf(entries, rel) == SortEntries(EntriesOf(entries, rel), <<>>)

GroupedPaths == GroupPaths(file_entries, <<>>)

\* _prepare_output_directory: the directories afterwards and the value
\* returned; nothing is created for list_only and dry_run.
PrepareOutputDirectory(fs, dirs) ==
    IF list_only \/ dry_run THEN [ok |-> TRUE, dirs |-> dirs]
    ELSE IF OUTPUT_ROOT \in DOMAIN fs THEN [ok |-> FALSE, dirs |-> dirs]
    ELSE [ok |-> TRUE, dirs |-> dirs \cup {OUTPUT_ROOT}]

\* The directories target_path.parent.mkdir(parents=True) leaves for files.
Parents(paths) == UNION {{SubSeq(f, 1, n) : n \in 1..(Len(f) - 1)} : f \in paths}

\* extract() up to the extraction loop: parse, prepare the output directory,
\* group; list_only lists and returns.
ExtractStart ==
    /\ extract_pc = "start"
    /\ LET r == Parse(bundle_lines)
           p == PrepareOutputDirectory(out_fs, out_dirs)
       IN  /\ file_entries' = r.file_entries
           /\ out_dirs' = IF r.ok THEN p.dirs ELSE out_dirs
           /\ extract_pc' = IF r.ok /\ p.ok /\ ~list_only THEN "groups" ELSE "done"
           /\ extract_result' = (r.ok /\ p.ok)
    /\ UNCHANGED <<bundle_lines, bundle_blocks, force_overwrite, list_only, dry_run,
                   out_fs, group_idx, file_extraction_counter, reassembled_parts,
                   reassemble_i>>
    /\ UNCHANGED chunkVars
    /\ UNCHANGED bundleVars
    /\ UNCHANGED collectVars

\* One iteration of the loop of _extract_files.
ExtractGroupStep(rel, entries, target) ==
    IF target = <<>>
    THEN [fs |-> out_fs, done |-> FALSE, count |-> 0, parts |-> <<>>]
    ELSE LET c == DetermineContent(entries)
         IN  IF c.raised
             THEN [fs |-> out_fs, done |-> FALSE, count |-> 0, parts |-> <<>>]
             ELSE LET x == ExtractFile(out_fs, target, c.content, IsEmptyFile(entries[1]),
                                       force_overwrite, dry_run)
                  IN  [fs |-> x.fs, done |-> FALSE,
                       count |-> IF x.ok THEN 1 ELSE 0, parts |-> c.parts]

ExtractGroup ==
    /\ extract_pc = "groups"
    /\ group_idx < Len(GroupedPaths)
    /\ LET rel == GroupedPaths[group_idx + 1]
           r == ExtractGroupStep(rel, GroupOf(file_entries, rel),
                                 ValidateAndResolvePath(OUTPUT_ROOT, rel))
       IN  /\ out_fs' = r.fs
           /\ out_dirs' = out_dirs \cup Parents(DOMAIN r.fs \ DOMAIN out_fs)
           /\ file_extraction_counter' = file_extraction_counter + r.count
           /\ reassembled_parts' = r.parts
           /\ group_idx' = group_idx + 1
           /\ extract_pc' = IF r.done THEN "done" ELSE "groups"
           /\ extract_result' = IF r.done THEN FALSE ELSE extract_result
    /\ UNCHANGED <<bundle_lines, bundle_blocks, force_overwrite, list_only, dry_run,
                   file_entries, reassemble_i>>
    /\ UNCHANGED chunkVars
    /\ UNCHANGED bundleVars
    /\ UNCHANGED collectVars

\* The end of _extract_files: the summary is printed and True returned.
ExtractFinish ==
    /\ extract_pc = "groups"
    /\ group_idx = Len(GroupedPaths)
    /\ extract_pc' = "done"
    /\ extract_result' = TRUE
    /\ UNCHANGED <<bundle_lines, bundle_blocks, force_overwrite, list_only, dry_run,
                   out_fs, out_dirs, file_entries, group_idx, file_extraction_counter,
                   reassembled_parts, reassemble_i>>
    /\ UNCHANGED chunkVars
    /\ UNCHANGED bundleVars
    /\ UNCHANGED collectVars

(***************************************************************************)
(* Extraction of an arbitrary bundle file                                  *)
(***************************************************************************)
\* The chunker's part of the state while it is not running.
ChunkIdle ==
    /\ tokens = <<>>
    /\ chunk_size = 1
    /\ chunk_overlap = 0
    /\ current_pos = 0
    /\ chunks = <<>>
    /\ chunk_pc = "idle"

Item(key, value) == [key |-> key, value |-> value]

FileLine(num, path, chunk_num, total_chunks, sep, items) ==
    [k |-> "file", num |-> num, path |-> path, chunk_num |-> chunk_num,
     total_chunks |-> total_chunks, meta |-> [sep |-> sep, items |-> items]]

HeaderLines ==
    << [k |-> "attention"], [k |-> "instructions"], BlankLine, [k |-> "start"],
       [k |-> "generated"], [k |-> "config"], [k |-> "dashes"], BlankLine >>

\* A block of an input bundle: a well-formed entry, or one of the faults
\*   "badheader"  a line that is no entry header where one is expected
\*   "nobof"      an entry header not followed by the BOF marker
\*   "noeof"      an entry header and BOF marker with no EOF marker
EntryBlock(path, chunk_num, total_chunks, sep, items, body) ==
    [kind |-> "entry",
     header |-> FileLine(1, path, chunk_num, total_chunks, sep, items),
     body |-> body]

FaultBlock(kind) ==
    [kind |-> kind,
     header |-> FileLine(1, <<"a.txt">>, NoInt, NoInt, ";", <<Item("op", "+")>>),
     body |-> <<"a", NL>>]

BlockLines(b) ==
    CASE b.kind = "entry" -> <<b.header, BofLine>> \o SplitLines(b.body, <<>>)
                                \o <<EofLine, BlankLine>>
      [] b.kind = "badheader" -> SplitLines(b.body, <<>>)
      [] b.kind = "nobof" -> <<b.header>> \o SplitLines(b.body, <<>>) \o <<EofLine, BlankLine>>
      [] b.kind = "noeof" -> <<b.header, BofLine>> \o SplitLines(b.body, <<>>) \o <<BlankLine>>

RECURSIVE BlocksLines(_)
BlocksLines(bs) == IF bs = <<>> THEN <<>> ELSE BlockLines(Head(bs)) \o BlocksLines(Tail(bs))

SummaryFooter(counts) ==
    << BlankLine, [k |-> "summary"], counts, [k |-> "summary_end"], BlankLine, [k |-> "end"] >>

InputBundle(bs) ==
    HeaderLines \o BlocksLines(bs) \o SummaryFooter([k |-> "counts"])

PlusMeta == <<Item("checksum", "abc..."), Item("op", "+"), Item("size", "2")>>

ExtractBlocks ==
    { EntryBlock(<<"a.txt">>, NoInt, NoInt, ";", PlusMeta, <<"a", NL>>),
      EntryBlock(<<"a.txt">>, NoInt, NoInt, "|", PlusMeta, <<"b", NL>>),
      EntryBlock(<<"g", "f.txt">>, NoInt, NoInt, ";", PlusMeta, <<"b", NL>>),
      EntryBlock(<<"..", "x">>, NoInt, NoInt, ";", PlusMeta, <<"x", NL>>),
      EntryBlock(<<"/", "etc", "x">>, NoInt, NoInt, ";", PlusMeta, <<"x", NL>>),
      EntryBlock(<<"d", "..", "..", "x">>, NoInt, NoInt, ";", PlusMeta, <<"x", NL>>),
      EntryBlock(<<"e.txt">>, NoInt, NoInt, ";", <<Item("op", "0")>>, <<NL>>),
      EntryBlock(<<"c.txt">>, 1, 2, ";", PlusMeta, <<"a", "b", NL>>),
      EntryBlock(<<"c.txt">>, 2, 2, ";", PlusMeta \o <<Item("overlap_prev", "1")>>,
                 <<"b", "x", NL>>),
      FaultBlock("badheader"), FaultBlock("nobof"), FaultBlock("noeof") }

MaxBlocks == 3

\* The output directory before extraction: empty, or holding a.txt.
ExistingOutput == [f \in {OUTPUT_ROOT \o <<"a.txt">>} |-> <<"o", NL>>]

\* (force_overwrite, list_only, dry_run) as the command line sets them, with
\* the output directory they meet.
ExtractSetups ==
    { <<FALSE, FALSE, FALSE, EmptyMap>>, <<FALSE, FALSE, FALSE, ExistingOutput>>,
      <<TRUE, FALSE, FALSE, ExistingOutput>>, <<FALSE, TRUE, FALSE, EmptyMap>>,
      <<FALSE, FALSE, TRUE, ExistingOutput>> }

\* An Unbundler over a bundle made of up to MaxBlocks of the given blocks.
InitExtractFrom(blocks) ==
    /\ ChunkIdle
    /\ BundleIdle
    /\ CollectIdle
    /\ bundle_blocks \in SeqsUpTo(blocks, MaxBlocks)
    /\ bundle_lines = InputBundle(bundle_blocks)
    /\ \E setup \in ExtractSetups :
         /\ force_overwrite = setup[1]
         /\ list_only = setup[2]
         /\ dry_run = setup[3]
         /\ out_fs = setup[4]
         /\ out_dirs = IF setup[4] = EmptyMap THEN {} ELSE {OUTPUT_ROOT}
    /\ file_entries = <<>>
    /\ extract_pc = "start"
    /\ extract_result = FALSE
    /\ group_idx = 0
    /\ file_extraction_counter = 0
    /\ reassembled_parts = <<>>
    /\ reassemble_i = 0

InitExtract == InitExtractFrom(ExtractBlocks)

NextExtract == ExtractStart \/ ExtractGroup \/ ExtractFinish

SpecExtract == InitExtract /\ [][NextExtract]_vars

(***************************************************************************)
(* Properties of extraction, checked under SpecExtract                     *)
(***************************************************************************)
\* A relative path with a ".." segment, or an absolute one.
TraversalPath(rel) == IsAbsolute(rel) \/ ".." \in Range(rel)

\* What extraction leaves at the target of a group that is extracted.
ExpectedContent(rel) ==
    LET entries == GroupOf(file_entries, rel)
        c == DetermineContent(entries).content
    IN  IF IsEmptyFile(entries[1]) /\ c = <<NL>> THEN <<>> ELSE c

FirstFault ==
    IF \E i \in 1..Len(bundle_blocks) : bundle_blocks[i].kind # "entry"
    THEN CHOOSE i \in 1..Len(bundle_blocks) :
            /\ bundle_blocks[i].kind # "entry"
            /\ \A j \in 1..(i - 1) : bundle_blocks[j].kind = "entry"
    ELSE 0

\* No EOF marker in the file after block i.
NoEofFollows(i) ==
    \A j \in (i + 1)..Len(bundle_blocks) : bundle_blocks[j].kind \in {"badheader", "noeof"}

ParseFault ==
    /\ FirstFault # 0
    /\ \/ bundle_blocks[FirstFault].kind \in {"badheader", "nobof"}
       \/ bundle_blocks[FirstFault].kind = "noeof" /\ NoEofFollows(FirstFault)

\* C7 (parse failure is total): when, after well-formed entries, a line that
\* is no entry header stands where one is expected, or an entry header is not
\* followed by the BOF marker, or no EOF marker follows an entry's BOF, the
\* extraction loop is never entered, the output directory stays as it was,
\* and extract() returns False.
C7_ParseFailureTotal ==
    ParseFault
        => /\ extract_pc # "groups"
           /\ out_fs \in {EmptyMap, ExistingOutput}
           /\ file_extraction_counter = 0
           /\ extract_pc = "done" => extract_result = FALSE

C7_Witness ==
    /\ ParseFault
    /\ FirstFault >= 2
    /\ extract_pc = "done"
    /\ ~list_only /\ ~dry_run
    /\ file_entries # <<>>
    /\ IsSafePath(OUTPUT_ROOT, file_entries[1].relative_path)
    /\ out_fs = EmptyMap

\* A step keeps every file there is, with its content.
KeepsExistingFiles ==
    \A f \in DOMAIN out_fs : f \in DOMAIN out_fs' /\ out_fs'[f] = out_fs[f]

\* A step creates or modifies no file and no directory.
TouchesNothing == out_fs' = out_fs /\ out_dirs' = out_dirs

\* C16 as stated (extraction modes): no step of an extraction without
\* force_overwrite changes a file that exists, no step in dry-run or
\* list-only mode creates or modifies a file or directory, and extract() in
\* dry-run or list-only mode returns True.
C16_AsStated ==
    /\ [][(~force_overwrite => KeepsExistingFiles)
            /\ ((dry_run \/ list_only) => TouchesNothing)]_vars
    /\ []((extract_pc = "done" /\ (dry_run \/ list_only)) => extract_result = TRUE)

\* C16 (extraction modes): no step of an extraction without force_overwrite
\* changes a file that exists, no step in dry-run or list-only mode creates
\* or modifies a file or directory, and extract() in dry-run or list-only
\* mode returns True when the bundle parses.
C16_ExtractionModes ==
    /\ [][(~force_overwrite => KeepsExistingFiles)
            /\ ((dry_run \/ list_only) => TouchesNothing)]_vars
    /\ []((extract_pc = "done" /\ (dry_run \/ list_only) /\ Parse(bundle_lines).ok)
            => extract_result = TRUE)

\* Without force_overwrite an extraction has met the existing a.txt with an
\* entry of other content, kept it, and written another file.
C16_Witness ==
    /\ extract_pc = "done"
    /\ extract_result = TRUE
    /\ ~force_overwrite /\ ~dry_run /\ ~list_only
    /\ \E i \in 1..Len(file_entries) :
         /\ file_entries[i].relative_path = <<"a.txt">>
         /\ file_entries[i].content # ExistingOutput[OUTPUT_ROOT \o <<"a.txt">>]
    /\ out_fs[OUTPUT_ROOT \o <<"a.txt">>] = ExistingOutput[OUTPUT_ROOT \o <<"a.txt">>]
    /\ file_extraction_counter = 1

(***************************************************************************)
(* Extraction of bundles with chunked, incomplete and mixed entries        *)
(***************************************************************************)
ChunkMeta == <<Item("op", "C"), Item("chunk_tokens", "2")>>

\* c.txt in two chunks and as a plain entry, z.txt as chunk 1 of a declared
\* total of 0, a plain file and an empty one.
ReconstructBlocks ==
    { EntryBlock(<<"a.txt">>, NoInt, NoInt, ";", PlusMeta, <<"a", NL>>),
      EntryBlock(<<"e.txt">>, NoInt, NoInt, ";", <<Item("op", "0")>>, <<NL>>),
      EntryBlock(<<"c.txt">>, 1, 2, ";", ChunkMeta, <<"a", "b", NL>>),
      EntryBlock(<<"c.txt">>, 2, 2, ";", ChunkMeta \o <<Item("overlap_prev", "1")>>,
                 <<"b", "x", NL>>),
      EntryBlock(<<"c.txt">>, NoInt, NoInt, ";", PlusMeta, <<"p", NL>>),
      EntryBlock(<<"z.txt">>, 1, 0, ";", ChunkMeta, <<"q", NL>>) }

InitReconstruct == InitExtractFrom(ReconstructBlocks)

SpecReconstruct == InitReconstruct /\ [][NextExtract]_vars

\* The entries grouped under a path, sorted as _extract_files sorts them.
Group(rel) == GroupOf(file_entries, rel)

\* Extraction writing into the output directory has returned.
ExtractionDone == extract_pc = "done" /\ Parse(bundle_lines).ok /\ ~list_only /\ ~dry_run

\* Every entry of the path is a chunk entry declaring the same total, and
\* the number of entries present is not that total.
MissingChunks(rel) ==
    /\ \A i \in 1..Len(Group(rel)) :
          Group(rel)[i].is_chunk /\ Group(rel)[i].total_chunks = Group(rel)[1].total_chunks
    /\ Len(Group(rel)) # Group(rel)[1].total_chunks

\* The path has chunk entries and entries that are no chunks.
MixedEntries(rel) ==
    /\ \E i \in 1..Len(Group(rel)) : Group(rel)[i].is_chunk
    /\ \E i \in 1..Len(Group(rel)) : ~Group(rel)[i].is_chunk

\* The path was written with the content extraction determines for it, or
\* kept because it existed and force_overwrite is off.
Extracted(rel) ==
    LET target == ResolvePath(OUTPUT_ROOT, rel)
    IN  /\ target \in DOMAIN out_fs
        /\ \/ out_fs[target] = ExpectedContent(rel)
           \/ /\ ~force_overwrite
              /\ target \in DOMAIN ExistingOutput
              /\ out_fs[target] = ExistingOutput[target]

\* No file was written for the path: the target does not exist, or is the
\* file that was there before.
NotWritten(rel) ==
    LET target == ResolvePath(OUTPUT_ROOT, rel)
    IN  \/ target \notin DOMAIN out_fs
        \/ target \in DOMAIN ExistingOutput /\ out_fs[target] = ExistingOutput[target]

\* C12 (missing chunks): once extraction has returned, for every path whose
\* number of chunk entries differs from the declared total no file has been
\* written, every path that has neither missing chunks nor mixed entries is
\* extracted, and extract() has returned True.
C12_MissingChunks ==
    ExtractionDone
        => \A rel \in Range(GroupedPaths) :
              MissingChunks(rel)
                => /\ NotWritten(rel)
                   /\ extract_result = TRUE
                   /\ \A other \in Range(GroupedPaths) :
                        (~MissingChunks(other) /\ ~MixedEntries(other)) => Extracted(other)

\* C13 (mixed entries): once extraction has returned, for every path grouped
\* from both chunk and non-chunk entries no file has been written, and every
\* path that has neither mixed entries nor missing chunks is extracted.
C13_MixedEntries ==
    ExtractionDone
        => \A rel \in Range(GroupedPaths) :
              MixedEntries(rel)
                => /\ NotWritten(rel)
                   /\ \A other \in Range(GroupedPaths) :
                        (~MissingChunks(other) /\ ~MixedEntries(other)) => Extracted(other)

\* The chunk indices of the sorted group are 1..total, each once, and every
\* entry declares that total.
ExactChunkSet(group) ==
    \A i \in 1..Len(group) :
        /\ group[i].is_chunk
        /\ group[i].total_chunks = Len(group)
        /\ group[i].chunk_num = i

\* C29 (chunk index validation): once extraction has returned, a file has
\* been written for a path with chunk entries only when the chunk indices
\* present are exactly 1..total, each once, with the same total declared on
\* every entry.
C29_ChunkIndexValidation ==
    ExtractionDone
        => \A rel \in Range(GroupedPaths) :
              ((\E i \in 1..Len(Group(rel)) : Group(rel)[i].is_chunk) /\ ~NotWritten(rel))
                  => ExactChunkSet(Group(rel))

(***************************************************************************)
(* FileExtractor.reassemble_chunks on the chunk entries of one path        *)
(***************************************************************************)
MaxChunks == 2

\* Contents as the parser delivers them: whole lines.
ChunkTexts ==
    { <<>>, <<NL>>, <<"a", NL>>, <<"b", NL>>, <<"a", "b", NL>>, <<"b", "a", NL>>,
      <<NL, "a", NL>>, <<"b", NL, "b", NL>>, <<"a", NL, NL>> }

\* overlap_prev as written in the entry header; "" when the key is absent.
OverlapValues == {"", "1", "2", "3"}

ChunkEntry(n, total, text, overlap) ==
    ParsedFileEntry(
        FileLine(1, <<"c.txt">>, n, total, ";",
                 IF overlap = "" THEN PlusMeta
                 ELSE PlusMeta \o <<Item("overlap_prev", overlap)>>),
        text)

ChunkEntryLists ==
    UNION { { [i \in 1..n |-> ChunkEntry(i, n, texts[i], IF i = 1 THEN "" ELSE overlaps[i])] :
                texts \in [1..n -> ChunkTexts], overlaps \in [1..n -> OverlapValues] }
            : n \in 1..MaxChunks }

InitReassemble ==
    /\ ChunkIdle
    /\ BundleIdle
    /\ CollectIdle
    /\ bundle_lines = <<>>
    /\ bundle_blocks = <<>>
    /\ force_overwrite = FALSE
    /\ list_only = FALSE
    /\ dry_run = FALSE
    /\ out_fs = EmptyMap
    /\ out_dirs = {}
    /\ file_entries \in ChunkEntryLists
    /\ extract_pc = "reassemble"
    /\ extract_result = FALSE
    /\ group_idx = 0
    /\ file_extraction_counter = 0
    /\ reassembled_parts = <<>>
    /\ reassemble_i = 0

\* for i, chunk_entry in enumerate(entries): ...
ReassembleStep ==
    /\ extract_pc = "reassemble"
    /\ reassemble_i < Len(file_entries)
    /\ reassembled_parts' = Append(reassembled_parts,
                                   ReassemblePart(file_entries, reassemble_i + 1,
                                                  reassembled_parts))
    /\ reassemble_i' = reassemble_i + 1
    /\ UNCHANGED <<bundle_lines, bundle_blocks, force_overwrite, list_only, dry_run,
                   out_fs, out_dirs, file_entries, extract_pc, extract_result, group_idx,
                   file_extraction_counter>>
    /\ UNCHANGED chunkVars
    /\ UNCHANGED bundleVars
    /\ UNCHANGED collectVars

\* return "".join(reassembled_parts)
ReassembleReturn ==
    /\ extract_pc = "reassemble"
    /\ reassemble_i = Len(file_entries)
    /\ extract_pc' = "reassembled"
    /\ UNCHANGED <<bundle_lines, bundle_blocks, force_overwrite, list_only, dry_run,
                   out_fs, out_dirs, file_entries, extract_result, group_idx,
                   file_extraction_counter, reassembled_parts, reassemble_i>>
    /\ UNCHANGED chunkVars
    /\ UNCHANGED bundleVars
    /\ UNCHANGED collectVars

NextReassemble == ReassembleStep \/ ReassembleReturn

SpecReassemble == InitReassemble /\ [][NextReassemble]_vars

(***************************************************************************)
(* Properties of reassembly, checked under SpecReassemble                  *)
(***************************************************************************)
LastBytes(text, k) == Slice(text, Len(text) - k, Len(text))
FirstBytes(text, k) == Slice(text, 0, k)

\* The content assembled before entry i was appended.
AssembledBefore(i) == Flatten(SubSeq(reassembled_parts, 1, i - 1))

StripOneNewline(text) ==
    IF text # <<>> /\ text[Len(text)] = NL THEN SubSeq(text, 1, Len(text) - 1) ELSE text

RawConcatenation == Flatten([i \in 1..Len(file_entries) |-> file_entries[i].content])

\* The overlap of entry i does not verify against `assembled`.
OverlapFails(assembled, i) ==
    LET k == GetOverlapBytes(file_entries[i])
        chunk == file_entries[i].content
    IN  \/ Len(assembled) < k
        \/ Len(chunk) < k
        \/ LastBytes(assembled, k) # FirstBytes(chunk, k)

\* C5 as stated (overlap fallback safety): whenever the first overlap_prev
\* bytes of a chunk differ from the last overlap_prev bytes of the content
\* assembled so far, or either side is shorter than overlap_prev, the chunk's
\* full content is appended unmodified.
C5_AsStated ==
    \A i \in 2..Len(reassembled_parts) :
        (GetOverlapBytes(file_entries[i]) > 0 /\ OverlapFails(AssembledBefore(i), i))
            => reassembled_parts[i] = file_entries[i].content

\* C5 amended: the comparison is made against the content assembled so far
\* with one trailing newline removed.  Whenever the first overlap_prev bytes
\* of a chunk differ from the last overlap_prev bytes of that content, or
\* either side is shorter than overlap_prev, the chunk's full content is
\* appended unmodified; reassembly always completes, and when this holds for
\* every chunk that declares an overlap the result is the raw concatenation of
\* the chunk contents.
C5_OverlapFallback ==
    /\ \A i \in 2..Len(reassembled_parts) :
         (GetOverlapBytes(file_entries[i]) > 0
            /\ OverlapFails(StripOneNewline(AssembledBefore(i)), i))
            => reassembled_parts[i] = file_entries[i].content
    /\ extract_pc = "reassembled" =>
         /\ Len(reassembled_parts) = Len(file_entries)
         /\ (\A i \in 2..Len(file_entries) :
                \/ GetOverlapBytes(file_entries[i]) = 0
                \/ OverlapFails(StripOneNewline(AssembledBefore(i)), i))
              => Flatten(reassembled_parts) = RawConcatenation

C5_Witness ==
    /\ extract_pc = "reassembled"
    /\ Len(file_entries) = 2
    /\ GetOverlapBytes(file_entries[2]) = 2
    /\ file_entries[1].content = <<"a", "b", NL>>
    /\ file_entries[2].content = <<"b", NL, "b", NL>>
    /\ Flatten(reassembled_parts) = <<"a", "b", NL, "b", NL, "b", NL>>

\* C21 (overlap match): whenever a chunk after the first declares
\* overlap_prev = k > 0, is at least k bytes long and its first k bytes equal
\* the last k bytes of the content assembled so far with one trailing
\* newline removed, the part appended for it is exactly its content past
\* byte k.
C21_OverlapMatch ==
    \A i \in 2..Len(reassembled_parts) :
        LET k == GetOverlapBytes(file_entries[i])
            chunk == file_entries[i].content
        IN  (k > 0 /\ ~OverlapFails(StripOneNewline(AssembledBefore(i)), i))
                => reassembled_parts[i] = Slice(chunk, k, Len(chunk))

(***************************************************************************)
(* Tokenizer.  tiktoken's cl100k_base is a byte-pair encoding; the model   *)
(* keeps one merge, "ab", applied greedily.  A token is the text it        *)
(* decodes to.                                                             *)
(***************************************************************************)
Merges == { <<"a", "b">> }

RECURSIVE Encode(_)
Encode(text) ==
    IF text = <<>> THEN <<>>
    ELSE IF Len(text) >= 2 /\ SubSeq(text, 1, 2) \in Merges
         THEN <<SubSeq(text, 1, 2)>> \o Encode(SubSeq(text, 3, Len(text)))
    ELSE <<SubSeq(text, 1, 1)>> \o Encode(Tail(text))

Decode(toks) == Flatten(toks)

(***************************************************************************)
(* utils.py, reader.py                                                     *)
(***************************************************************************)
\* The control characters of the model: ESC (0x1B) and NUL (0x00).
ControlCharNames == [c \in {ESC, NUL} |->
                        IF c = ESC THEN <<"[", "E", "S", "C", "]">>
                        ELSE <<"[", "N", "U", "L", "]">>]

HasDangerousChars(content) ==
    \E i \in 1..Len(content) : content[i] \in DOMAIN ControlCharNames

RECURSIVE SanitizeDangerousChars(_)
SanitizeDangerousChars(content) ==
    IF content = <<>> THEN <<>>
    ELSE (IF Head(content) \in DOMAIN ControlCharNames
          THEN ControlCharNames[Head(content)] ELSE <<Head(content)>>)
         \o SanitizeDangerousChars(Tail(content))

\* FileReader._clean_content: content.replace("\x00", "")
CleanContent(content) == SelectSeq(content, LAMBDA c : c # NUL)

\* A candidate file: its path below the root, its bytes, whether stat works
\* ("ok" / "error") and how reading it goes: "ok", "fallback" (not valid in
\* the primary encoding, read as latin-1) or "fail" (OSError).
\* FileReader.read: (content, encoding_error, fallback_failed); none is TRUE
\* for content None.
Read(f) ==
    IF f.read = "fail"
    THEN [none |-> TRUE, content |-> <<>>, enc_err |-> TRUE, enc_fail |-> TRUE]
    ELSE [none |-> FALSE, content |-> CleanContent(f.content),
          enc_err |-> f.read = "fallback", enc_fail |-> FALSE]

(***************************************************************************)
(* metadata.py, metadata_writer.py                                         *)
(***************************************************************************)
\* str(n) for the numbers the model writes.
DigitStrings == <<"0", "1", "2", "3", "4", "5", "6", "7", "8", "9">>

Str(n) == IF n \in 0..9 THEN DigitStrings[n + 1] ELSE "NN"

\* compute_file_hash: files have the same digest exactly when they have the
\* same bytes; the digest of a content is the content itself.
ComputeFileHash(content) == content

NoChecksum == <<"no checksum">>
NoPath == <<>>

FileMetadata(path, size, file_type, checksum, operation, token_count) ==
    [path |-> path, size |-> size, file_type |-> file_type, checksum |-> checksum,
     operation |-> operation, token_count |-> token_count,
     chunk_num |-> NoInt, total_chunks |-> NoInt, overlap_bytes_prev |-> NoInt,
     original |-> NoPath]

\* FileMetadata.from_path; raised is TRUE for ValueError.
FromPath(f) ==
    IF f.stat = "error"
    THEN [raised |-> TRUE, metadata |-> FileMetadata(f.path, -1, NoValue, NoChecksum, "error", NoInt)]
    ELSE LET file_size == Len(f.content)
             operation == IF file_size = 0 THEN "empty" ELSE "included"
             token_count == IF operation = "included" /\ NUL \notin Range(f.content)
                            THEN Len(Encode(f.content)) ELSE NoInt
         IN  [raised |-> FALSE,
              metadata |-> FileMetadata(f.path, file_size,
                              IF file_size > 0 THEN "plain" ELSE NoValue,
                              IF file_size > 0 THEN ComputeFileHash(f.content) ELSE NoChecksum,
                              operation, token_count)]

GetOperationCode(operation) ==
    CASE operation = "included" -> "+"
      [] operation = "skipped" -> "-"
      [] operation = "empty" -> "0"
      [] operation = "duplicate" -> "d"
      [] operation = "excluded" -> "x"
      [] operation = "error" -> "!"
      [] OTHER -> "?"

\* MetadataWriter.format_metadata: the items sorted by key and joined with
\* " | ".  The checksum and the original path are written as text; the model
\* keeps them as the values themselves.
MetadataItems(md) ==
    (IF md.checksum # NoChecksum THEN <<Item("checksum", md.checksum)>> ELSE <<>>)
    \o <<Item("modified", "mtime"), Item("op", GetOperationCode(md.operation))>>
    \o (IF md.operation = "duplicate" /\ md.original # NoPath
        THEN <<Item("original", md.original)>> ELSE <<>>)
    \o (IF md.overlap_bytes_prev # NoInt
        THEN <<Item("overlap_prev", Str(md.overlap_bytes_prev))>> ELSE <<>>)
    \o <<Item("size", Str(md.size))>>
    \o (IF md.token_count # NoInt THEN <<Item("tokens", Str(md.token_count))>> ELSE <<>>)
    \o (IF md.file_type # NoValue THEN <<Item("type", md.file_type)>> ELSE <<>>)

FormatMetadata(file_num, md) ==
    FileLine(file_num, md.path,
             IF md.chunk_num # NoInt /\ md.total_chunks # NoInt THEN md.chunk_num ELSE NoInt,
             IF md.chunk_num # NoInt /\ md.total_chunks # NoInt THEN md.total_chunks ELSE NoInt,
             "|", MetadataItems(md))

(***************************************************************************)
(* FileChunker.should_chunk / chunk (chunking.py), with chunk_size 0 for   *)
(* "not configured" (None)                                                 *)
(***************************************************************************)
NoChunking == 0

ShouldChunk(size, none, token_count, had_encoding_error) ==
    IF size = NoChunking THEN FALSE
    ELSE IF none \/ had_encoding_error THEN FALSE
    ELSE ~(token_count = NoInt \/ token_count <= size)

\* _calculate_overlap_bytes
CalculateOverlapBytes(current_chunk_tokens, overlap) ==
    IF Len(current_chunk_tokens) < overlap THEN NoInt
    ELSE Len(Decode(Slice(current_chunk_tokens, 0, overlap)))

\* _create_chunk_data
CreateChunkDataFromFirst(cs, overlap) ==
    [i \in 1..Len(cs) |->
        [chunk_num |-> i, total_chunks |-> Len(cs), tokens |-> cs[i],
         token_count |-> Len(cs[i]),
         overlap_bytes_prev |->
            IF overlap > 0 /\ cs[i] # <<>>
            THEN CalculateOverlapBytes(cs[i], overlap) ELSE NoInt]]

CreateChunkData(cs, overlap) ==
    [i \in 1..Len(cs) |->
        [chunk_num |-> i, total_chunks |-> Len(cs), tokens |-> cs[i],
         token_count |-> Len(cs[i]),
         overlap_bytes_prev |->
            IF i > 1 /\ overlap > 0 /\ cs[i - 1] # <<>>
            THEN CalculateOverlapBytes(cs[i], overlap) ELSE NoInt]]

\* chunk(): the windows of the encoded content.
Chunk(content, size, overlap) ==
    CreateChunkData(SplitTokens(Encode(content), size, overlap).chunks, overlap)

(***************************************************************************)
(* Bundler (bundler.py)                                                    *)
(***************************************************************************)
EndsWithNewline(text) == text # <<>> /\ text[Len(text)] = NL

\* The lines a content leaves in the buffer when written with a newline
\* added if it does not end with one.
ContentLines(text) ==
    SplitLines(IF EndsWithNewline(text) THEN text ELSE text \o <<NL>>, <<>>)

\* _write_empty_file
WriteEmptyFile(md) == <<FormatMetadata(0, md), BofLine, BlankLine, EofLine, BlankLine>>

\* _write_single_file
WriteSingleFile(content, md, file_num) ==
    <<FormatMetadata(file_num, md), BofLine>>
    \o (IF content # <<>> THEN ContentLines(content) ELSE <<>>)
    \o <<EofLine, BlankLine>>

\* _create_chunk_metadata
CreateChunkMetadata(md, chunk_data) ==
    [md EXCEPT !.chunk_num = chunk_data.chunk_num,
               !.total_chunks = chunk_data.total_chunks,
               !.token_count = chunk_data.token_count,
               !.overlap_bytes_prev = chunk_data.overlap_bytes_prev]

\* _write_chunked_file
RECURSIVE WriteChunks(_, _, _)
WriteChunks(chunk_list, md, file_num) ==
    IF chunk_list = <<>> THEN <<>>
    ELSE <<FormatMetadata(file_num, CreateChunkMetadata(md, Head(chunk_list))), BofLine>>
         \o ContentLines(Decode(Head(chunk_list).tokens))
         \o <<EofLine, BlankLine>>
         \o WriteChunks(Tail(chunk_list), md, file_num)

WriteChunkedFile(content, md, file_num, size, overlap) ==
    WriteChunks(Chunk(content, size, overlap), md, file_num)

\* chunk() raises TokenizationError when the encoder fails and ChunkingError
\* when the split gives no chunk.
ChunkRaises(f, content, size, overlap) ==
    \/ f.tokenize = "fail"
    \/ SplitTokens(Encode(content), size, overlap).chunks = <<>>

\* _create_exclusion_metadata
CreateExclusionMetadata(f, operation) ==
    FileMetadata(f.path, IF f.stat = "error" THEN -1 ELSE Len(f.content),
                 NoValue, NoChecksum, operation, NoInt)

\* ExclusionManager.add_excluded_item for a file, on the manager's state
\* [cache, items, counts].
AddExcludedItem(em, path, is_dir, reason) ==
    [cache |-> [x \in DOMAIN em.cache \cup {path} |-> IF x = path THEN reason ELSE em.cache[x]],
     items |-> [x \in DOMAIN em.items \cup {path} |-> IF x = path THEN reason ELSE em.items[x]],
     counts |->
        IF reason = "gitignore"
        THEN [em.counts EXCEPT !.gitignore = @ + 1]
        ELSE IF reason \in {"string", "regex", "glob"}
        THEN IF is_dir THEN [em.counts EXCEPT !.config_dirs = @ + 1]
             ELSE [em.counts EXCEPT !.config_files = @ + 1]
        ELSE IF reason = "error" THEN [em.counts EXCEPT !.error = @ + 1]
        ELSE IF reason = "skipped" THEN [em.counts EXCEPT !.skipped_by_limit = @ + 1]
        ELSE em.counts]

ZeroCounts ==
    [gitignore |-> 0, config_files |-> 0, config_dirs |-> 0, error |-> 0,
     skipped_by_limit |-> 0]

ZeroStats ==
    [included_count |-> 0, total_size |-> 0, duplicates |-> 0, empty_files |-> 0,
     io_errors |-> 0, encoding_errors |-> 0, skipped_max_files |-> 0,
     unsafe_excluded |-> 0, unsafe_sanitized |-> 0]

ReplaceLast(seq, x) == [seq EXCEPT ![Len(seq)] = x]

\* One iteration of the loop of _process_files on file f: the buffer, the
\* counters, the hash map, the metadata list and the exclusion manager
\* afterwards.
WriteContent(content, none, enc, md, file_num) ==
    IF ShouldChunk(chunk_size, none, md.token_count, enc) /\ content # <<>>
    THEN WriteChunkedFile(content, md, file_num, chunk_size, chunk_overlap)
    ELSE WriteSingleFile(content, md, file_num)

ProcessIncluded(f, md0, st) ==
    LET rd == Read(f)
        st1 == [st EXCEPT !.file_hash_map =
                              IF md0.checksum # NoChecksum
                              THEN [c \in DOMAIN st.file_hash_map \cup {md0.checksum} |->
                                      IF c = md0.checksum THEN md0.path
                                      ELSE st.file_hash_map[c]]
                              ELSE st.file_hash_map,
                          !.stats.included_count = @ + 1,
                          !.stats.total_size = IF md0.size > 0 THEN @ + md0.size ELSE @,
                          !.stats.encoding_errors = IF rd.enc_fail THEN @ + 1 ELSE @]
        md1 == IF rd.enc_fail THEN [md0 EXCEPT !.operation = "error", !.token_count = NoInt]
               ELSE md0
        dangerous == rd.content # <<>> /\ HasDangerousChars(rd.content)
    IN  IF dangerous /\ ~allow_unsafe /\ ~sanitize_unsafe
        THEN [st1 EXCEPT !.stats.unsafe_excluded = @ + 1,
                         !.stats.included_count = @ - 1,
                         !.stats.total_size = IF md1.size > 0 THEN @ - md1.size ELSE @,
                         !.all_metadata = ReplaceLast(@, [md1 EXCEPT !.operation = "excluded"]),
                         !.em = AddExcludedItem(@, f.path, FALSE, "unsafe")]
        ELSE LET content == IF dangerous /\ ~allow_unsafe
                            THEN SanitizeDangerousChars(rd.content) ELSE rd.content
                 st2 == [st1 EXCEPT !.stats.unsafe_sanitized =
                                        IF dangerous /\ ~allow_unsafe THEN @ + 1 ELSE @,
                                    !.all_metadata = ReplaceLast(@, md1)]
             IN  IF /\ ShouldChunk(chunk_size, rd.none, md1.token_count,
                                   rd.enc_err \/ rd.enc_fail)
                    /\ content # <<>>
                    /\ ChunkRaises(f, content, chunk_size, chunk_overlap)
                 THEN [st2 EXCEPT !.raised = TRUE]
                 ELSE [st2 EXCEPT !.buffer = @ \o WriteContent(content, rd.none,
                                                               rd.enc_err \/ rd.enc_fail, md1,
                                                               st1.stats.included_count)]

ProcessFile(f, st) ==
    LET cached == MapGet(st.em.cache, f.path, NoValue)
        fp == FromPath(f)
        md == fp.metadata
        st0 == [st EXCEPT !.all_metadata = Append(@, md)]
    IN  IF cached # NoValue /\ cached \notin {"error", "skipped"}
        THEN IF show_excluded
             THEN [st EXCEPT !.all_metadata = Append(@, CreateExclusionMetadata(f, "excluded"))]
             ELSE st
        ELSE IF max_files # NoInt /\ max_files # 0 /\ st.stats.included_count >= max_files
        THEN [st EXCEPT !.stats.skipped_max_files = @ + 1,
                        !.em = AddExcludedItem(@, f.path, FALSE, "skipped"),
                        !.all_metadata = Append(@, CreateExclusionMetadata(f, "skipped"))]
        ELSE IF fp.raised
        THEN [st EXCEPT !.stats.io_errors = @ + 1,
                        !.em = AddExcludedItem(@, f.path, FALSE, "error"),
                        !.all_metadata = Append(@, CreateExclusionMetadata(f, "error"))]
        ELSE IF md.operation = "error"
        THEN [st0 EXCEPT !.stats.io_errors = @ + 1,
                         !.buffer = @ \o <<FormatMetadata(0, md), BlankLine>>]
        ELSE IF md.operation = "empty"
        THEN [st0 EXCEPT !.stats.empty_files = @ + 1,
                         !.buffer = @ \o WriteEmptyFile(md)]
        ELSE IF md.checksum # NoChecksum /\ md.checksum \in DOMAIN st.file_hash_map
        THEN LET dup == [md EXCEPT !.operation = "duplicate",
                                   !.original = st.file_hash_map[md.checksum]]
             IN  [st0 EXCEPT !.all_metadata = ReplaceLast(@, dup),
                             !.stats.duplicates = @ + 1,
                             !.buffer = @ \o <<FormatMetadata(0, dup), BlankLine>>]
        ELSE IF md.operation = "included"
        THEN ProcessIncluded(f, md, st0)
        ELSE st0

\* _create_footer
CreateFooter(st) ==
    SummaryFooter(
        [k |-> "counts",
         included_files |-> st.stats.included_count,
         total_size |-> st.stats.total_size,
         duplicates |-> st.stats.duplicates,
         empty_files |-> st.stats.empty_files,
         io_errors |-> st.stats.io_errors + st.em.counts.error,
         encoding_errors |-> st.stats.encoding_errors,
         skipped_by_limit |-> st.em.counts.skipped_by_limit,
         unsafe_excluded |-> st.stats.unsafe_excluded,
         unsafe_sanitized |-> st.stats.unsafe_sanitized])

\* bundle(): a fresh buffer, the header, the counters of _process_files.
BundleStart ==
    /\ bundle_pc = "start"
    /\ buffer' = HeaderLines
    /\ stats' = ZeroStats
    /\ file_hash_map' = EmptyMap
    /\ all_metadata' = <<>>
    /\ file_idx' = 0
    /\ bundle_pc' = "files"
    /\ UNCHANGED <<files, max_files, allow_unsafe, sanitize_unsafe, show_excluded,
                   attempt, exclusion_manager>>
    /\ UNCHANGED chunkVars
    /\ UNCHANGED extractVars
    /\ UNCHANGED collectVars

MaxAttempts == 2

\* The iteration of the loop of _process_files on the next candidate.
NextFileProcessed ==
    ProcessFile(files[file_idx + 1],
                [buffer |-> buffer, stats |-> stats, file_hash_map |-> file_hash_map,
                 all_metadata |-> all_metadata, em |-> exclusion_manager,
                 raised |-> FALSE])

\* for idx, file_path in enumerate(file_paths, start=1): ...  An exception
\* chunk() raises leaves _process_files and bundle(), which @retry runs once
\* more.
ProcessNextFile ==
    /\ bundle_pc = "files"
    /\ file_idx < Len(files)
    /\ LET st == NextFileProcessed
       IN  /\ buffer' = st.buffer
           /\ stats' = st.stats
           /\ file_hash_map' = st.file_hash_map
           /\ all_metadata' = st.all_metadata
           /\ exclusion_manager' = st.em
           /\ bundle_pc' = IF ~st.raised THEN bundle_pc
                           ELSE IF attempt < MaxAttempts THEN "start" ELSE "failed"
           /\ attempt' = IF st.raised /\ attempt < MaxAttempts THEN attempt + 1 ELSE attempt
    /\ file_idx' = file_idx + 1
    /\ UNCHANGED <<files, max_files, allow_unsafe, sanitize_unsafe, show_excluded>>
    /\ UNCHANGED chunkVars
    /\ UNCHANGED extractVars
    /\ UNCHANGED collectVars

BufferWithFooter ==
    buffer \o CreateFooter([stats |-> stats, em |-> exclusion_manager])

\* The footer is appended and the buffer written to the output file; the
\* bundle is then there to be extracted into an empty directory.
BundleWrite ==
    /\ bundle_pc = "files"
    /\ file_idx = Len(files)
    /\ buffer' = BufferWithFooter
    /\ bundle_lines' = BufferWithFooter
    /\ bundle_pc' = "done"
    /\ extract_pc' = "start"
    /\ UNCHANGED <<files, max_files, allow_unsafe, sanitize_unsafe, show_excluded,
                   file_idx, stats, file_hash_map, all_metadata, attempt,
                   exclusion_manager>>
    /\ UNCHANGED <<bundle_blocks, force_overwrite, list_only, dry_run, out_fs, out_dirs,
                   file_entries, extract_result, group_idx, file_extraction_counter,
                   reassembled_parts, reassemble_i>>
    /\ UNCHANGED chunkVars
    /\ UNCHANGED collectVars

\* _write_to_disk raises BundleError; @retry(max_attempts=2) runs bundle()
\* once more, on the same exclusion manager.
BundleWriteFails ==
    /\ bundle_pc = "files"
    /\ file_idx = Len(files)
    /\ buffer' = BufferWithFooter
    /\ bundle_pc' = IF attempt < MaxAttempts THEN "start" ELSE "failed"
    /\ attempt' = IF attempt < MaxAttempts THEN attempt + 1 ELSE attempt
    /\ UNCHANGED <<files, max_files, allow_unsafe, sanitize_unsafe, show_excluded,
                   file_idx, stats, file_hash_map, all_metadata, exclusion_manager>>
    /\ UNCHANGED chunkVars
    /\ UNCHANGED extractVars
    /\ UNCHANGED collectVars

(***************************************************************************)
(* Bundling a directory and extracting the bundle                          *)
(***************************************************************************)
MaxFiles == 2

\* The candidates in the order the collector sorts them.
BundlePaths == << <<"a.txt">>, <<"b.txt">>, <<"c.txt">>, <<"d.txt">> >>

\* tokenize is "fail" for a file on which the encoder raises when chunk()
\* encodes the content read.
FileKind(content, stat, read) ==
    [content |-> content, stat |-> stat, read |-> read, tokenize |-> "ok"]

FileKinds ==
    { FileKind(<<>>, "ok", "ok"),
      FileKind(<<"x">>, "ok", "ok"),
      FileKind(<<"a", NL>>, "ok", "ok"),
      FileKind(<<"a", "b", "a", "b", NL>>, "ok", "ok"),
      FileKind(<<"a", ESC, NL>>, "ok", "ok"),
      FileKind(<<"a", NUL, "b", NL>>, "ok", "ok"),
      FileKind(<<"a", "b", "a", "b", NL>>, "ok", "fallback"),
      FileKind(<<"a", NL>>, "ok", "fail"),
      FileKind(<<"a", NL>>, "error", "ok"),
      [FileKind(<<"a", "b", "a", "b", NL>>, "ok", "ok") EXCEPT !.tokenize = "fail"],
      FileKind(<<BOF_TEXT, NL>>, "ok", "ok"),
      FileKind(<<EOF_TEXT, NL, "b", NL>>, "ok", "ok") }

CandidateLists ==
    UNION { { [i \in 1..n |-> [path |-> BundlePaths[i], content |-> kinds[i].content,
                               stat |-> kinds[i].stat, read |-> kinds[i].read,
                               tokenize |-> kinds[i].tokenize]] :
                kinds \in [1..n -> FileKinds] } : n \in 0..MaxFiles }

\* (allow_unsafe, sanitize_unsafe), (chunk_size, chunk_overlap), max_files
\* (NoInt for None) and show_excluded.
BundleSetups ==
    { <<m[1], m[2], c[1], c[2], NoInt, FALSE>> :
        m \in {<<FALSE, FALSE>>, <<TRUE, FALSE>>, <<FALSE, TRUE>>},
        c \in {<<NoChunking, 0>>, <<2, 0>>, <<2, 1>>} }
    \cup { <<FALSE, FALSE, NoChunking, 0, 1, FALSE>>,
           <<TRUE, FALSE, 2, 1, 1, FALSE>>,
           <<FALSE, FALSE, NoChunking, 0, NoInt, TRUE>>,
           <<FALSE, FALSE, NoChunking, 0, 0, FALSE>> }

\* The cache after the collector has called is_excluded on every candidate
\* and got None for it.
CollectedCache(fs) == [p \in {fs[i].path : i \in 1..Len(fs)} |-> NoValue]

InitBundle ==
    /\ files \in CandidateLists
    /\ \E setup \in BundleSetups :
         /\ allow_unsafe = setup[1]
         /\ sanitize_unsafe = setup[2]
         /\ chunk_size = setup[3]
         /\ chunk_overlap = setup[4]
         /\ max_files = setup[5]
         /\ show_excluded = setup[6]
    /\ tokens = <<>>
    /\ current_pos = 0
    /\ chunks = <<>>
    /\ chunk_pc = "idle"
    /\ file_idx = 0
    /\ buffer = <<>>
    /\ stats = ZeroStats
    /\ file_hash_map = EmptyMap
    /\ all_metadata = <<>>
    /\ bundle_pc = "start"
    /\ attempt = 1
    /\ \E cache \in {EmptyMap, CollectedCache(files)} :
         exclusion_manager = [cache |-> cache, items |-> EmptyMap, counts |-> ZeroCounts]
    /\ ExtractIdle
    /\ CollectIdle

NextBundle ==
    \/ BundleStart
    \/ ProcessNextFile
    \/ BundleWrite
    \/ BundleWriteFails
    \/ ExtractStart
    \/ ExtractGroup
    \/ ExtractFinish

SpecBundle == InitBundle /\ [][NextBundle]_vars

(***************************************************************************)
(* ExclusionManager (exclusions.py): path strings are sequences of         *)
(* characters, patterns likewise                                           *)
(***************************************************************************)
\* fnmatch.fnmatch with the wildcards * and ?.
RECURSIVE FnMatch(_, _)
FnMatch(name, pat) ==
    IF pat = <<>> THEN name = <<>>
    ELSE IF Head(pat) = "*"
         THEN FnMatch(name, Tail(pat)) \/ (name # <<>> /\ FnMatch(Tail(name), pat))
         ELSE /\ name # <<>>
              /\ (Head(pat) = "?" \/ Head(pat) = Head(name))
              /\ FnMatch(Tail(name), Tail(pat))

\* re.compile fails on an unbalanced parenthesis; the regular expressions
\* of the model are otherwise plain strings, which search as substrings.
ReCompiles(pattern) == "(" \notin Range(pattern)

RegexSearch(pattern, str) ==
    \E i \in 1..(Len(str) - Len(pattern) + 1) :
        SubSeq(str, i, i + Len(pattern) - 1) = pattern

IsAbsoluteStr(str) == str # <<>> /\ Head(str) = "/"

LastSlash(str) == CHOOSE i \in 1..Len(str) :
                    str[i] = "/" /\ \A j \in (i + 1)..Len(str) : str[j] # "/"

\* Path.name and Path.parent of an absolute path.
Basename(str) == SubSeq(str, LastSlash(str) + 1, Len(str))

Parent(str) == IF LastSlash(str) = 1 THEN <<"/">> ELSE SubSeq(str, 1, LastSlash(str) - 1)

\* Path.relative_to(dir) for a path below dir.
RelativeTo(str, dir) ==
    IF dir = <<"/">> THEN Tail(str) ELSE SubSeq(str, Len(dir) + 2, Len(str))

RECURSIVE SplitPath(_, _)
SplitPath(str, cur) ==
    IF str = <<>> THEN <<cur>>
    ELSE IF Head(str) = "/" THEN <<cur>> \o SplitPath(Tail(str), <<>>)
    ELSE SplitPath(Tail(str), Append(cur, Head(str)))

\* PathSpec.match_file for rules that are plain names: such a rule matches
\* a file of that name at any depth and everything below a directory of
\* that name.
GitMatch(spec, rel) == \E k \in 1..Len(spec) : spec[k] \in Range(SplitPath(rel, <<>>))

RECURSIVE CompileConfigPatterns(_, _, _)
CompileConfigPatterns(root_dir, raw, acc) ==
    IF raw = <<>> THEN acc
    ELSE LET pattern == Head(raw)
             is_glob == \E c \in {"*", "?", "["} : c \in Range(pattern)
         IN  CompileConfigPatterns(root_dir, Tail(raw),
                IF ~is_glob /\ ~IsAbsoluteStr(pattern) /\ ReCompiles(pattern)
                THEN [acc EXCEPT !.compiled_regexes = Append(@, pattern)]
                ELSE IF is_glob
                THEN [acc EXCEPT !.glob_patterns = Append(@, pattern)]
                ELSE IF IsAbsoluteStr(pattern)
                THEN [acc EXCEPT !.string_literals = Append(@, pattern)]
                ELSE [acc EXCEPT !.string_literals = Append(@, root_dir \o <<"/">> \o pattern)])

\* One PathSpec per directory whose .gitignore has rules.
LoadGitignoreSpecs(gitignore_files) ==
    [d \in {x \in DOMAIN gitignore_files : gitignore_files[x] # <<>>} |-> gitignore_files[d]]

\* ExclusionManager.__init__
NewExclusionManager(root_dir, use_gitignore, gitignore_files, include_patterns, exclude_patterns) ==
    LET compiled == CompileConfigPatterns(root_dir, exclude_patterns,
                        [compiled_regexes |-> <<>>, glob_patterns |-> <<>>,
                         string_literals |-> <<>>])
    IN  [cache |-> EmptyMap, items |-> EmptyMap, counts |-> ZeroCounts,
         root_dir |-> root_dir,
         use_gitignore |-> use_gitignore,
         gitignore_specs |-> IF use_gitignore THEN LoadGitignoreSpecs(gitignore_files)
                             ELSE EmptyMap,
         include_patterns |-> include_patterns,
         compiled_regexes |-> compiled.compiled_regexes,
         glob_patterns |-> compiled.glob_patterns,
         string_literals |-> compiled.string_literals]

\* root_dir <= dir for the directories of the scanned tree.
AtOrBelow(root_dir, dir) ==
    dir = root_dir \/ (Len(dir) > Len(root_dir)
                        /\ SubSeq(dir, 1, Len(root_dir) + 1) = root_dir \o <<"/">>)

RECURSIVE CheckGitignoreFrom(_, _, _)
CheckGitignoreFrom(em, path, dir) ==
    IF ~AtOrBelow(em.root_dir, dir) THEN FALSE
    ELSE IF dir \in DOMAIN em.gitignore_specs
            /\ GitMatch(em.gitignore_specs[dir], RelativeTo(path, dir))
    THEN TRUE
    ELSE IF dir = em.root_dir THEN FALSE
    ELSE IF Parent(dir) = dir THEN FALSE
    ELSE CheckGitignoreFrom(em, path, Parent(dir))

CheckGitignore(em, path) ==
    IF ~IsAbsoluteStr(path) THEN FALSE ELSE CheckGitignoreFrom(em, path, Parent(path))

FnMatchAny(path, patterns) ==
    \E k \in 1..Len(patterns) :
        FnMatch(path, patterns[k]) \/ FnMatch(Basename(path), patterns[k])

CacheNone(em, path) ==
    [em EXCEPT !.cache = [x \in DOMAIN em.cache \cup {path} |->
                             IF x = path THEN NoValue ELSE em.cache[x]]]

Excluded(em, path, is_dir, reason) ==
    LET rec == AddExcludedItem(em, path, is_dir, reason)
    IN  [reason |-> reason,
         em |-> [em EXCEPT !.cache = rec.cache, !.items = rec.items, !.counts = rec.counts]]

IsExcludedIncludeFirst(em, path, is_dir) ==
    IF path \in DOMAIN em.cache THEN [reason |-> em.cache[path], em |-> em]
    ELSE IF FnMatchAny(path, em.include_patterns)
    THEN [reason |-> NoValue, em |-> CacheNone(em, path)]
    ELSE IF em.use_gitignore /\ DOMAIN em.gitignore_specs # {} /\ CheckGitignore(em, path)
    THEN Excluded(em, path, is_dir, "gitignore")
    ELSE IF path \in Range(em.string_literals)
    THEN Excluded(em, path, is_dir, "string")
    ELSE IF \E k \in 1..Len(em.compiled_regexes) : RegexSearch(em.compiled_regexes[k], path)
    THEN Excluded(em, path, is_dir, "regex")
    ELSE IF FnMatchAny(path, em.glob_patterns)
    THEN Excluded(em, path, is_dir, "glob")
    ELSE [reason |-> NoValue, em |-> CacheNone(em, path)]

\* ExclusionManager.is_excluded: the reason returned (NoValue for None) and
\* the manager afterwards.
IsExcluded(em, path, is_dir) ==
    IF path \in DOMAIN em.cache THEN [reason |-> em.cache[path], em |-> em]
    ELSE IF em.use_gitignore /\ DOMAIN em.gitignore_specs # {} /\ CheckGitignore(em, path)
    THEN Excluded(em, path, is_dir, "gitignore")
    ELSE IF FnMatchAny(path, em.include_patterns)
    THEN [reason |-> NoValue, em |-> CacheNone(em, path)]
    ELSE IF path \in Range(em.string_literals)
    THEN Excluded(em, path, is_dir, "string")
    ELSE IF \E k \in 1..Len(em.compiled_regexes) : RegexSearch(em.compiled_regexes[k], path)
    THEN Excluded(em, path, is_dir, "regex")
    ELSE IF FnMatchAny(path, em.glob_patterns)
    THEN Excluded(em, path, is_dir, "glob")
    ELSE [reason |-> NoValue, em |-> CacheNone(em, path)]

(***************************************************************************)
(* Properties of bundling and of the round trip, checked under SpecBundle  *)
(***************************************************************************)
\* The lines at which an entry of `path` with a BOF marker starts.
BodyStarts(lines, path) ==
    {l \in 1..(Len(lines) - 1) :
        lines[l].k = "file" /\ lines[l].path = path /\ lines[l + 1].k = "bof"}

HasBody(lines, path) == BodyStarts(lines, path) # {}

\* The text between the BOF and EOF markers of the entry starting at line l.
BodyText(lines, l) == JoinLines(SubSeq(lines, l + 2, FindEOF(lines, l + 2) - 1))

\* The operation recorded for a candidate, "none" when nothing was recorded.
OperationOf(path) ==
    IF \E j \in 1..Len(all_metadata) : all_metadata[j].path = path
    THEN all_metadata[CHOOSE j \in 1..Len(all_metadata) : all_metadata[j].path = path].operation
    ELSE "none"

\* Every candidate can be stat'ed and read in the primary encoding.
AllReadable == \A i \in 1..Len(files) : files[i].stat = "ok" /\ files[i].read = "ok"

\* Every candidate is plain text: readable, without control characters.
PlainTextDirectory ==
    AllReadable /\ \A i \in 1..Len(files) : ~HasDangerousChars(files[i].content)

\* C1 (round trip): once the bundle made from a directory of plain text
\* files has been extracted into an empty directory, every file whose
\* operation was `included` is there with exactly its original bytes.
C1_RoundTrip ==
    (extract_pc = "done" /\ PlainTextDirectory)
        => \A i \in 1..Len(files) :
              OperationOf(files[i].path) = "included"
                => /\ OUTPUT_ROOT \o files[i].path \in DOMAIN out_fs
                   /\ out_fs[OUTPUT_ROOT \o files[i].path] = files[i].content

\* The candidates with the same bytes (the same content hash) as candidate i.
SameHash(i) == {j \in 1..Len(files) : files[j].content = files[i].content}

\* C3 (dedup uniqueness): after bundling readable candidates without a file
\* limit, among several candidates sharing one content hash exactly one has
\* operation `included` and a content body, and every other one has
\* operation `duplicate`, refers to that one and has no body, whatever the
\* unsafe-content mode.
C3_DedupUniqueness ==
    (bundle_pc = "done" /\ attempt = 1 /\ AllReadable /\ max_files = NoInt)
        => \A i \in 1..Len(files) :
              (files[i].content # <<>> /\ Cardinality(SameHash(i)) >= 2)
                => \E w \in SameHash(i) :
                     /\ OperationOf(files[w].path) = "included"
                     /\ HasBody(buffer, files[w].path)
                     /\ \A j \in SameHash(i) \ {w} :
                          /\ OperationOf(files[j].path) = "duplicate"
                          /\ ~HasBody(buffer, files[j].path)
                          /\ \E l \in 1..Len(buffer) :
                               /\ buffer[l].k = "file"
                               /\ buffer[l].path = files[j].path
                               /\ Item("original", files[w].path) \in Range(buffer[l].meta.items)

\* C6 (unsafe content tri-state): after bundling readable candidates with
\* distinct contents, without chunking or file limit, a file whose bytes
\* contain 0x00 or 0x1B has no body in the default mode, has its bytes as
\* body with allow_unsafe, and with sanitize_unsafe has as body its bytes
\* with every such byte replaced by its bracketed name.
C6_UnsafeTriState ==
    (bundle_pc = "done" /\ attempt = 1 /\ AllReadable /\ max_files = NoInt
        /\ chunk_size = NoChunking
        /\ \A i \in 1..Len(files) : SameHash(i) = {i})
        => \A i \in 1..Len(files) :
              (NUL \in Range(files[i].content) \/ ESC \in Range(files[i].content))
                => IF ~allow_unsafe /\ ~sanitize_unsafe
                   THEN ~HasBody(buffer, files[i].path)
                   ELSE /\ HasBody(buffer, files[i].path)
                        /\ \A l \in BodyStarts(buffer, files[i].path) :
                             BodyText(buffer, l) =
                                IF allow_unsafe THEN files[i].content
                                ELSE SanitizeDangerousChars(files[i].content)

\* The entry header lines of duplicates in the buffer.
DuplicateLines ==
    {l \in 1..Len(buffer) :
        buffer[l].k = "file" /\ Item("op", "d") \in Range(buffer[l].meta.items)}

FirstSeen(content) ==
    CHOOSE i \in 1..Len(files) :
        /\ files[i].content = content
        /\ \A j \in 1..(i - 1) : files[j].content # content

\* C9 (duplicate entries): after bundling readable candidates without a file
\* limit, every duplicate has in the archive only its metadata line, with
\* operation code d and original = the first-seen path of its hash, and no
\* BOF/EOF block; the first-seen file has a content body; and the footer's
\* Duplicate Files Skipped count is the number of duplicate entries.
C9_DuplicateEntries ==
    (bundle_pc = "done" /\ attempt = 1 /\ AllReadable /\ max_files = NoInt)
        => /\ \A i \in 1..Len(files) :
                OperationOf(files[i].path) = "duplicate"
                  => LET first == files[FirstSeen(files[i].content)].path
                     IN  /\ \E l \in DuplicateLines :
                              /\ buffer[l].path = files[i].path
                              /\ Item("original", first) \in Range(buffer[l].meta.items)
                              /\ IsBlank(buffer[l + 1])
                         /\ ~HasBody(buffer, files[i].path)
                         /\ HasBody(buffer, first)
           /\ \A l \in 1..Len(buffer) :
                buffer[l].k = "counts" => buffer[l].duplicates = Cardinality(DuplicateLines)

\* The candidates written to the buffer with a nonzero file number.
Numbered(lines) ==
    {i \in 1..Len(files) :
        \E l \in 1..Len(lines) :
            lines[l].k = "file" /\ lines[l].path = files[i].path /\ lines[l].num # 0}

\* The candidates the loop reaches when max_files files are already included.
ReachedAtLimit ==
    {i \in 1..Len(files) :
        Cardinality({j \in Numbered(buffer) : j < i}) >= max_files}

\* C14 (max_files limit): after a first bundling attempt with a configured
\* max_files value m, at most m candidates are written with a file number,
\* every candidate reached once m files are included is recorded as skipped
\* and has no entry in the archive, and the footer's Files Skipped (Limit
\* Reached) count is the number of those candidates.
C14_MaxFilesLimit ==
    (bundle_pc = "done" /\ attempt = 1 /\ max_files # NoInt)
        => /\ Cardinality(Numbered(buffer)) <= max_files
           /\ \A i \in ReachedAtLimit :
                /\ OperationOf(files[i].path) = "skipped"
                /\ \A l \in 1..Len(buffer) :
                     buffer[l].k = "file" => buffer[l].path # files[i].path
           /\ \A l \in 1..Len(buffer) :
                buffer[l].k = "counts"
                  => buffer[l].skipped_by_limit = Cardinality(ReachedAtLimit)

\* The candidate an entry header line belongs to.
CandidateOf(path) == CHOOSE i \in 1..Len(files) : files[i].path = path

\* C15 (file numbering): after a first bundling attempt, every entry written
\* with a nonzero number belongs to a candidate whose operation is
\* `included`, its number is the rank of that candidate among the numbered
\* candidates in candidate order (so the numbers run 1, 2, 3, ... and the
\* chunks of one file share one number), and every duplicate entry and
\* every error entry is written with the number 0.
C15_FileNumbering ==
    (bundle_pc = "done" /\ attempt = 1)
        => \A l \in 1..Len(buffer) :
              buffer[l].k = "file"
                => /\ buffer[l].num # 0
                        => /\ OperationOf(buffer[l].path) = "included"
                           /\ buffer[l].num =
                                 Cardinality({j \in Numbered(buffer) :
                                                 j <= CandidateOf(buffer[l].path)})
                   /\ (\/ Item("op", "d") \in Range(buffer[l].meta.items)
                       \/ Item("op", "!") \in Range(buffer[l].meta.items))
                        => buffer[l].num = 0

\* The entry header lines of the bundle file whose operation code is 0.
EmptyEntryLines ==
    {l \in 1..Len(bundle_lines) :
        bundle_lines[l].k = "file" /\ Item("op", "0") \in Range(bundle_lines[l].meta.items)}

\* C17 (empty files): once the bundle the bundler wrote has been extracted
\* into an empty directory, every entry whose operation code is 0 is there
\* as a zero-length file.
C17_EmptyFiles ==
    (extract_pc = "done" /\ extract_result = TRUE)
        => \A l \in EmptyEntryLines :
              /\ OUTPUT_ROOT \o bundle_lines[l].path \in DOMAIN out_fs
              /\ out_fs[OUTPUT_ROOT \o bundle_lines[l].path] = <<>>

\* C18 (exclusion decisions are immutable): no step of a bundling run
\* changes or drops the decision the cache holds for a path.
C18_DecisionsImmutable ==
    [][\A p \in DOMAIN exclusion_manager.cache :
          /\ p \in DOMAIN exclusion_manager.cache'
          /\ exclusion_manager.cache'[p] = exclusion_manager.cache[p]]_vars

\* chunk() is called on the next candidate and raises.
ChunkingFailsNext ==
    bundle_pc = "files" /\ file_idx < Len(files) /\ NextFileProcessed.raised

\* The errors the footer reports: I/O errors and encoding errors.
ErrorCount(s, em) == s.io_errors + em.counts.error + s.encoding_errors

\* C19 (chunking errors are per-file): when chunk() fails on a candidate,
\* the step that processes it goes on to the next candidate of the same
\* run, counts an error in the statistics, records the candidate with
\* operation `error` and writes nothing of it but possibly a header line,
\* so that the run still ends with the bundle written.
C19_ChunkingErrorsPerFile ==
    [][ChunkingFailsNext
         => /\ bundle_pc' = "files"
            /\ attempt' = attempt
            /\ file_idx' = file_idx + 1
            /\ ErrorCount(stats', exclusion_manager') = ErrorCount(stats, exclusion_manager) + 1
            /\ OperationOf(files[file_idx + 1].path)' = "error"
            /\ ~HasBody(buffer', files[file_idx + 1].path)]_vars

\* The candidates whose content the bundler tried to read and could not,
\* even with the fallback encoding.
ContentErrors ==
    {i \in 1..Len(files) :
        /\ files[i].stat = "ok" /\ files[i].read = "fail" /\ files[i].content # <<>>
        /\ OperationOf(files[i].path) \notin {"none", "skipped", "duplicate"}}

\* C20 (content errors): after a first bundling attempt, every candidate
\* whose content could not be read is marked `error` and has no BOF/EOF
\* block in the archive, and the footer's count of included files is the
\* number of candidates marked `included`.
C20_ContentErrors ==
    (bundle_pc = "done" /\ attempt = 1)
        => /\ \A i \in ContentErrors :
                /\ OperationOf(files[i].path) = "error"
                /\ ~HasBody(buffer, files[i].path)
           /\ ContentErrors # {}
                => \A l \in 1..Len(buffer) :
                      buffer[l].k = "counts"
                        => buffer[l].included_files =
                             Cardinality({i \in 1..Len(files) :
                                            OperationOf(files[i].path) = "included"})

\* A step records a path as excluded: the excluded items change, or a
\* counter does.
RecordsExclusion ==
    \/ exclusion_manager.items' # exclusion_manager.items
    \/ exclusion_manager.counts' # exclusion_manager.counts

\* A step records an inclusion: a path enters the cache with decision None.
RecordsInclusion ==
    /\ exclusion_manager.items' = exclusion_manager.items
    /\ \E p \in DOMAIN exclusion_manager.cache' \ DOMAIN exclusion_manager.cache :
          exclusion_manager.cache'[p] = NoValue

\* C22 (exclusion counters): every step that records a path as excluded
\* increments exactly one of the gitignore, config-file, config-dir, error
\* and skipped counters by one and leaves the others as they are, and a step
\* that records an inclusion changes no counter.
C22_ExclusionCounters ==
    [][/\ RecordsExclusion
           => \E c \in DOMAIN ZeroCounts :
                 exclusion_manager.counts' = [exclusion_manager.counts EXCEPT ![c] = @ + 1]
       /\ RecordsInclusion => exclusion_manager.counts' = exclusion_manager.counts]_vars

\* The text _write_single_file places between the markers for a content.
WrittenBody(content) == IF EndsWithNewline(content) THEN content ELSE content \o <<NL>>

\* Every candidate is written as one single entry with its content as body.
SingleEntries ==
    /\ PlainTextDirectory
    /\ chunk_size = NoChunking /\ max_files = NoInt
    /\ \A i \in 1..Len(files) : files[i].content # <<>> /\ SameHash(i) = {i}

\* C23 (verbatim content): once the parser has read a bundle in which every
\* candidate was written as one single entry, every candidate has a parsed
\* entry whose content is exactly the text the writer placed between its BOF
\* and EOF markers.
C23_VerbatimContent ==
    (bundle_pc = "done" /\ attempt = 1 /\ extract_pc \in {"groups", "done"} /\ SingleEntries)
        => \A i \in 1..Len(files) :
              \E j \in 1..Len(file_entries) :
                  /\ file_entries[j].relative_path = files[i].path
                  /\ file_entries[j].content = WrittenBody(files[i].content)

\* The entry header lines the bundler wrote.
EntryLines == {l \in 1..Len(buffer) : buffer[l].k = "file"}

\* C25 (writer/parser compatibility): once the parser has read the bundle
\* that bundle() wrote, parse() has accepted it and has returned one parsed
\* entry per entry header line written.
C25_WriterParserCompatible ==
    (bundle_pc = "done" /\ extract_pc \in {"groups", "done"})
        => /\ Parse(bundle_lines).ok
           /\ Len(file_entries) = Cardinality(EntryLines)

\* The entry header lines of the bundle file that parsed entry j was read
\* from.
HeaderLinesOf(j) ==
    {l \in 1..Len(bundle_lines) :
        /\ bundle_lines[l].k = "file"
        /\ bundle_lines[l].path = file_entries[j].relative_path
        /\ bundle_lines[l].chunk_num = file_entries[j].chunk_num}

\* C26 (metadata round trip): once the parser has read the bundle that
\* bundle() wrote, the metadata map of every parsed entry holds every key
\* of its entry header line with the value written.
C26_MetadataRoundTrip ==
    (bundle_pc = "done" /\ extract_pc \in {"groups", "done"})
        => \A j \in 1..Len(file_entries) :
              \A l \in HeaderLinesOf(j) :
                  \A k \in 1..Len(bundle_lines[l].meta.items) :
                      LET it == bundle_lines[l].meta.items[k]
                      IN  /\ it.key \in DOMAIN file_entries[j].metadata_dict
                          /\ file_entries[j].metadata_dict[it.key] = it.value

\* The reasons is_excluded decides by the exclusion rules.
RuleReasons == {"gitignore", "string", "regex", "glob"}

\* The candidates among the first n that have no cached rule exclusion.
CountedCandidates(n) ==
    {i \in 1..n : MapGet(exclusion_manager.cache, files[i].path, NoValue) \notin RuleReasons}

\* The metadata of the files counted as included: operation included, or
\* turned into error by a failed read after the file was counted.
CountedAsIncluded(md) ==
    md.operation = "included" \/ (md.operation = "error" /\ md.size > 0)

RECURSIVE SizeOfIncluded(_)
SizeOfIncluded(mds) ==
    IF mds = <<>> THEN 0
    ELSE (IF CountedAsIncluded(Head(mds)) THEN Head(mds).size ELSE 0)
         + SizeOfIncluded(Tail(mds))

SixCounts ==
    stats.included_count + stats.duplicates + stats.empty_files + stats.io_errors
    + stats.skipped_max_files + stats.unsafe_excluded

\* C27 (accounting): while and after _process_files runs over the
\* candidates, the six counts included, duplicates, empty, I/O errors,
\* skipped-by-limit and unsafe-excluded sum to the number of candidates
\* processed that had no cached rule exclusion, and total_size is the sum of
\* the sizes of the files counted as included.
C27_Accounting ==
    bundle_pc = "files"
        => /\ SixCounts = Cardinality(CountedCandidates(file_idx))
           /\ stats.total_size = SizeOfIncluded(all_metadata)

\* _process_files on the candidates from index i on, starting from st.
RECURSIVE ProcessFrom(_, _)
ProcessFrom(i, st) ==
    IF i > Len(files) \/ st.raised THEN st
    ELSE ProcessFrom(i + 1, ProcessFile(files[i], st))

\* What one attempt of bundle() on a manager without recorded exclusions
\* leaves behind.
SingleAttempt ==
    ProcessFrom(1, [buffer |-> HeaderLines, stats |-> ZeroStats,
                    file_hash_map |-> EmptyMap, all_metadata |-> <<>>,
                    em |-> [cache |-> EmptyMap, items |-> EmptyMap, counts |-> ZeroCounts],
                    raised |-> FALSE])

SecondAttemptProcessed ==
    bundle_pc = "files" /\ attempt = 2 /\ file_idx = Len(files)

\* C28 (retry idempotence): when the final write of the first attempt of
\* bundle() failed and the second attempt has processed the same candidates
\* with the same exclusion manager, its statistics, its exclusion counters
\* and its archive entries are those of a single attempt.
C28_RetryIdempotent ==
    SecondAttemptProcessed
        => /\ stats = SingleAttempt.stats
           /\ exclusion_manager.counts = SingleAttempt.em.counts
           /\ buffer = SingleAttempt.buffer

\* The windows of _split_tokens with every token id decoded to a one-byte
\* text, and the chunk data _create_chunk_data makes of them.
WindowTexts == [k \in 1..Len(chunks) |-> [j \in 1..Len(chunks[k]) |-> <<"t">>]]

WindowData == CreateChunkData(WindowTexts, chunk_overlap)

\* C30 (overlap always available): for 0 <= overlap < chunk_size every
\* window of _split_tokens after the first holds more than `overlap`
\* tokens, so _calculate_overlap_bytes never takes its too-short branch, and
\* overlap_bytes_prev is set on exactly the windows with index > 1 when
\* overlap > 0 and on none when overlap = 0.
C30_OverlapAvailable ==
    ValidChunkConfig
        => \A k \in 1..Len(chunks) :
              /\ k > 1 => Len(chunks[k]) > chunk_overlap
              /\ (WindowData[k].overlap_bytes_prev # NoInt) <=> (k > 1 /\ chunk_overlap > 0)
              /\ WindowData[k].overlap_bytes_prev # NoInt
                    => WindowData[k].overlap_bytes_prev = chunk_overlap

\* Three windows with overlap, the last holding one token more than the
\* overlap.
C30_Witness ==
    /\ chunk_pc = "done"
    /\ ValidChunkConfig
    /\ chunk_overlap > 0
    /\ Len(chunks) >= 3
    /\ Len(chunks[Len(chunks)]) = chunk_overlap + 1
    /\ WindowData[Len(chunks)].overlap_bytes_prev = chunk_overlap

(***************************************************************************)
(* Classification of the paths of a small tree                             *)
(***************************************************************************)
MaxPatterns == 3

ROOT_DIR == <<"/", "r">>

\* The tree /r: files a, b and "(", and the directory d with a file a.
TreeDirs == {<<"/", "r", "/", "d">>}

TreePaths ==
    {<<"/", "r", "/", "a">>, <<"/", "r", "/", "b">>, <<"/", "r", "/", "(">>,
     <<"/", "r", "/", "d">>, <<"/", "r", "/", "d", "/", "a">>}

\* use_gitignore and the .gitignore files of the tree, by directory.
GitignoreSetups ==
    {<<FALSE, (ROOT_DIR :> <<<<"a">>>>)>>,
     <<TRUE, EmptyMap>>,
     <<TRUE, (ROOT_DIR :> <<<<"d">>>>)>>,
     <<TRUE, (<<"/", "r", "/", "d">> :> <<<<"a">>>>)>>,
     <<TRUE, (ROOT_DIR :> <<<<"b">>>>) @@ (<<"/", "r", "/", "d">> :> <<>>)>>}

IncludePatternLists ==
    {<<>>, <<<<"*", "a">>>>, <<<<"/", "r", "/", "a">>>>, <<<<"d">>, <<"b">>>>}

\* Exclude patterns as given in the configuration: an absolute path, plain
\* strings, globs, and a string that is no regular expression.
RawExcludePatterns ==
    {<<"/", "r", "/", "a">>, <<"a">>, <<"r">>, <<"*", "a">>, <<"(">>}

InitClassify ==
    /\ ChunkIdle
    /\ ExtractIdle
    /\ BundlerIdle
    /\ CollectIdle
    /\ \E setup \in GitignoreSetups, include_patterns \in IncludePatternLists,
          exclude_patterns \in SeqsUpTo(RawExcludePatterns, MaxPatterns) :
            exclusion_manager = NewExclusionManager(ROOT_DIR, setup[1], setup[2],
                                                    include_patterns, exclude_patterns)

\* One call of is_excluded on a path of the tree.
Classify ==
    /\ \E path \in TreePaths :
          exclusion_manager' = IsExcluded(exclusion_manager, path, path \in TreeDirs).em
    /\ UNCHANGED <<files, max_files, allow_unsafe, sanitize_unsafe, show_excluded,
                   file_idx, buffer, stats, file_hash_map, all_metadata, bundle_pc, attempt>>
    /\ UNCHANGED chunkVars
    /\ UNCHANGED extractVars
    /\ UNCHANGED collectVars

NextClassify == Classify

SpecClassify == InitClassify /\ [][NextClassify]_vars

\* A loaded ignore rule matches: gitignore support is on and the rules of
\* some directory above the path match the path relative to that directory.
IgnoreRuleMatches(path) ==
    /\ exclusion_manager.use_gitignore
    /\ \E d \in DOMAIN exclusion_manager.gitignore_specs :
          /\ Len(path) > Len(d)
          /\ SubSeq(path, 1, Len(d) + 1) = d \o <<"/">>
          /\ GitMatch(exclusion_manager.gitignore_specs[d], RelativeTo(path, d))

IncludePatternMatches(path) ==
    \E k \in 1..Len(exclusion_manager.include_patterns) :
        \/ FnMatch(path, exclusion_manager.include_patterns[k])
        \/ FnMatch(Basename(path), exclusion_manager.include_patterns[k])

LiteralTierMatches(path) == path \in Range(exclusion_manager.string_literals)

RegexTierMatches(path) ==
    \E k \in 1..Len(exclusion_manager.compiled_regexes) :
        RegexSearch(exclusion_manager.compiled_regexes[k], path)

GlobTierMatches(path) ==
    \E k \in 1..Len(exclusion_manager.glob_patterns) :
        \/ FnMatch(path, exclusion_manager.glob_patterns[k])
        \/ FnMatch(Basename(path), exclusion_manager.glob_patterns[k])

PrecedenceDecision(path) ==
    CASE IgnoreRuleMatches(path) -> "gitignore"
      [] ~IgnoreRuleMatches(path) /\ IncludePatternMatches(path) -> NoValue
      [] OTHER -> IF LiteralTierMatches(path) THEN "string"
                  ELSE IF RegexTierMatches(path) THEN "regex"
                  ELSE IF GlobTierMatches(path) THEN "glob"
                  ELSE NoValue

\* C8 (classification precedence): for every path, is_excluded returns
\* gitignore if a loaded ignore rule matches, whatever the include patterns;
\* otherwise None (included) if an include pattern matches the absolute path
\* or the basename, whatever the exclude patterns; otherwise the reason of
\* the first matching exclude tier in the order literal, regex, glob;
\* otherwise None.  The decisions already returned and memoized agree.
C8_ClassificationPrecedence ==
    /\ \A path \in TreePaths :
          IsExcluded(exclusion_manager, path, path \in TreeDirs).reason = PrecedenceDecision(path)
    /\ \A path \in DOMAIN exclusion_manager.cache :
          exclusion_manager.cache[path] = PrecedenceDecision(path)

\* Every layer has decided a path against the layers below it: an ignored
\* path that an include pattern matches, an included path that an exclude
\* pattern matches, a literal exclusion that a regex matches, and a regex
\* exclusion that a glob matches.
C8_Witness ==
    /\ \E path \in DOMAIN exclusion_manager.cache :
          /\ exclusion_manager.cache[path] = "gitignore"
          /\ IncludePatternMatches(path)
    /\ \E path \in DOMAIN exclusion_manager.cache :
          /\ exclusion_manager.cache[path] = NoValue
          /\ IncludePatternMatches(path)
          /\ RegexTierMatches(path)
    /\ \E path \in DOMAIN exclusion_manager.cache :
          /\ exclusion_manager.cache[path] = "string"
          /\ RegexTierMatches(path)
    /\ \E path \in DOMAIN exclusion_manager.cache :
          /\ exclusion_manager.cache[path] = "regex"
          /\ GlobTierMatches(path)

(***************************************************************************)
(* FileCollector (collection.py) on a small tree with symbolic links       *)
(***************************************************************************)
\* The tree /r: the files a and b, the directory d with the file a, the
\* link l to the file /r/d/a and the link m to the directory /r/d.
WalkFiles ==
    {<<"/", "r", "/", "a">>, <<"/", "r", "/", "b">>, <<"/", "r", "/", "d", "/", "a">>}

WalkDirs == {ROOT_DIR, <<"/", "r", "/", "d">>}

WalkLinks ==
    (<<"/", "r", "/", "l">> :> <<"/", "r", "/", "d", "/", "a">>)
    @@ (<<"/", "r", "/", "m">> :> <<"/", "r", "/", "d">>)

\* The names os.walk reports for a directory, subdirectories (links to
\* directories among them) and other entries.
WalkEntries ==
    (ROOT_DIR :> [dirs |-> <<<<"d">>, <<"m">>>>, files |-> <<<<"a">>, <<"b">>, <<"l">>>>])
    @@ (<<"/", "r", "/", "d">> :> [dirs |-> <<>>, files |-> <<<<"a">>>>])

\* Path.resolve(): a link, or a path through a link, is its target.
Resolve(path) ==
    IF \E l \in DOMAIN WalkLinks : AtOrBelow(l, path)
    THEN LET l == CHOOSE x \in DOMAIN WalkLinks : AtOrBelow(x, path)
         IN  WalkLinks[l] \o SubSeq(path, Len(l) + 1, Len(path))
    ELSE path

Join(dir, name) == dir \o <<"/">> \o name

\* _filter_directories: the names kept for descent and the manager
\* afterwards.
RECURSIVE FilterDirectories(_, _, _, _)
FilterDirectories(em, current_dir, dirs, kept) ==
    IF dirs = <<>> THEN [em |-> em, dirs |-> kept]
    ELSE LET resolved_dir == Resolve(Join(current_dir, Head(dirs)))
             r == IsExcluded(em, resolved_dir, TRUE)
         IN  FilterDirectories(r.em, current_dir, Tail(dirs),
                               IF r.reason # NoValue THEN kept ELSE Append(kept, Head(dirs)))

\* _handle_symlink: <<>> for None.
HandleSymlink(follow, resolved_path) ==
    IF ~follow THEN <<>>
    ELSE IF resolved_path \notin WalkFiles THEN <<>>
    ELSE resolved_path

\* _process_file: the candidate (<<>> for None) and the manager afterwards.
ProcessOneFile(em, follow, current_dir, file_name) ==
    LET file_path == Join(current_dir, file_name)
        is_symlink == file_path \in DOMAIN WalkLinks
        resolved_path == Resolve(file_path)
        r == IsExcluded(em, resolved_path, resolved_path \in WalkDirs)
    IN  [em |-> r.em,
         path |-> IF r.reason # NoValue THEN <<>>
                  ELSE IF is_symlink THEN HandleSymlink(follow, resolved_path)
                  ELSE IF resolved_path \in WalkFiles THEN resolved_path
                  ELSE <<>>]

\* for file_name in files: ... candidate_paths.append(file_path)
RECURSIVE ProcessFiles(_, _, _, _, _)
ProcessFiles(em, follow, current_dir, file_names, found) ==
    IF file_names = <<>> THEN [em |-> em, found |-> found]
    ELSE LET r == ProcessOneFile(em, follow, current_dir, Head(file_names))
         IN  ProcessFiles(r.em, follow, current_dir, Tail(file_names),
                          IF r.path = <<>> THEN found ELSE Append(found, r.path))

\* os.walk(topdown=True): the kept subdirectories it goes on to visit; a
\* link to a directory is visited only with followlinks.
Descend(follow, current_dir, dirs) ==
    LET paths == [i \in 1..Len(dirs) |-> Join(current_dir, dirs[i])]
    IN  SelectSeq(paths, LAMBDA q : follow \/ q \notin DOMAIN WalkLinks)

\* Python's order of the characters of the tree's paths.
CharRank ==
    ("/" :> 1) @@ ("a" :> 2) @@ ("b" :> 3) @@ ("d" :> 4) @@ ("l" :> 5) @@ ("m" :> 6)
    @@ ("r" :> 7)

RECURSIVE StrLess(_, _)
StrLess(x, y) ==
    IF y = <<>> THEN FALSE
    ELSE IF x = <<>> THEN TRUE
    ELSE IF Head(x) = Head(y) THEN StrLess(Tail(x), Tail(y))
    ELSE CharRank[Head(x)] < CharRank[Head(y)]

\* sorted(set(candidate_paths), key=relative posix path)
RECURSIVE SortedPaths(_)
SortedPaths(paths) ==
    IF paths = {} THEN <<>>
    ELSE LET least == CHOOSE x \in paths :
                        \A y \in paths \ {x} : StrLess(RelativeTo(x, ROOT_DIR),
                                                       RelativeTo(y, ROOT_DIR))
         IN  <<least>> \o SortedPaths(paths \ {least})

DeduplicateAndSort(paths) == SortedPaths(Range(paths))

CollectGitignoreSetups ==
    {<<FALSE, EmptyMap>>, <<TRUE, (ROOT_DIR :> <<<<"d">>>>)>>,
     <<TRUE, (ROOT_DIR :> <<<<"b">>>>)>>}

CollectIncludePatterns == {<<>>, <<<<"*", "a">>>>}

\* An absolute literal, a glob and two strings compiled as regular
\* expressions.
CollectExcludePatterns ==
    {<<"/", "r", "/", "d">>, <<"*", "d">>, <<"d">>, <<"b">>}

InitCollect ==
    /\ ChunkIdle
    /\ ExtractIdle
    /\ BundlerIdle
    /\ \E setup \in CollectGitignoreSetups, include_patterns \in CollectIncludePatterns,
          exclude_patterns \in SeqsUpTo(CollectExcludePatterns, MaxPatterns) :
            exclusion_manager = NewExclusionManager(ROOT_DIR, setup[1], setup[2],
                                                    include_patterns, exclude_patterns)
    /\ follow_symlinks \in BOOLEAN
    /\ walk_pending = <<ROOT_DIR>>
    /\ candidate_paths = <<>>
    /\ collect_pc = "walk"

\* One iteration of the loop over os.walk: the subdirectories are filtered,
\* then the files of the directory are processed.
WalkDirectory ==
    /\ collect_pc = "walk"
    /\ walk_pending # <<>>
    /\ LET current_dir == Head(walk_pending)
           entries == WalkEntries[Resolve(current_dir)]
           d == FilterDirectories(exclusion_manager, current_dir, entries.dirs, <<>>)
           f == ProcessFiles(d.em, follow_symlinks, current_dir, entries.files,
                             candidate_paths)
       IN  /\ exclusion_manager' = f.em
           /\ candidate_paths' = f.found
           /\ walk_pending' = Descend(follow_symlinks, current_dir, d.dirs)
                                \o Tail(walk_pending)
    /\ UNCHANGED <<follow_symlinks, collect_pc>>
    /\ UNCHANGED <<files, max_files, allow_unsafe, sanitize_unsafe, show_excluded,
                   file_idx, buffer, stats, file_hash_map, all_metadata, bundle_pc, attempt>>
    /\ UNCHANGED chunkVars
    /\ UNCHANGED extractVars

\* return self._deduplicate_and_sort(candidate_paths)
CollectReturn ==
    /\ collect_pc = "walk"
    /\ walk_pending = <<>>
    /\ candidate_paths' = DeduplicateAndSort(candidate_paths)
    /\ collect_pc' = "done"
    /\ UNCHANGED <<follow_symlinks, walk_pending, exclusion_manager>>
    /\ UNCHANGED <<files, max_files, allow_unsafe, sanitize_unsafe, show_excluded,
                   file_idx, buffer, stats, file_hash_map, all_metadata, bundle_pc, attempt>>
    /\ UNCHANGED chunkVars
    /\ UNCHANGED extractVars

NextCollect == WalkDirectory \/ CollectReturn

SpecCollect == InitCollect /\ [][NextCollect]_vars

\* The directories of the tree the classifier excludes.
ExcludedDirs ==
    {d \in WalkDirs \ {ROOT_DIR} : IsExcluded(exclusion_manager, d, TRUE).reason # NoValue}

\* C24 (directory pruning): no candidate lies beneath a directory of the
\* tree that the classifier excludes.
C24_DirectoryPruning ==
    \A i \in 1..Len(candidate_paths) :
        \A d \in ExcludedDirs : ~AtOrBelow(d, candidate_paths[i])

====
